---- MODULE Spec2Model ----
(***************************************************************************)
(* Model of githubhot: the summarization fallback chain                    *)
(* (src/src/ai_summarizer.py: AISummarizer.summarize_all and, inside it,    *)
(* summarize_repo, the tenacity-wrapped _call_llm_with_fallback, the two    *)
(* provider calls and _clean_json_response), the acquisition of the         *)
(* repository list (src/src/crawler.py: GitHubCrawler.crawl with its two    *)
(* listings and the README loop), the fan-out of notifications             *)
(* (src/src/notifier.py: NotificationManager.notify) and the steps of main  *)
(* (src/main.py).                                                          *)
(*                                                                         *)
(* Python values are modelled as follows.  A str is a TLA+ string, except  *)
(* where the code looks inside it (the provider's response text, a score   *)
(* given as a string): those are sequences of tokens / characters.  A      *)
(* decoded JSON value is a one-field record whose field name is its type:  *)
(* [str |-> s], [int |-> n], [null |-> TRUE], [list |-> seq],              *)
(* [obj |-> function from keys to JSON values].  Chinese string literals   *)
(* of the source are written in English (the module is ASCII).             *)
(***************************************************************************)
EXTENDS Integers, Sequences, FiniteSets, TLC

VARIABLES
    settings,        \* AISummarizer state: clients present, fallback_model, top_pick_count
    repos,           \* the argument of summarize_all
    top_pick_repos,  \* summarize_all's local set of names
    i,               \* summarize_all's loop index (1-based)
    pc,              \* position of the single thread of control
    attempt_number,  \* tenacity's attempt counter of the current _call_llm_with_fallback
    outcome,         \* what the last attempt / the whole retried call produced
    summary,         \* the ProjectSummary summarize_repo returned last
    result,          \* the SummaryResult under construction
    calls,           \* observation: provider invocations, body runs, backoff waits of the current repo
    max_repos,       \* settings.max_repos as GitHubCrawler reads it
    crawler_result,  \* the CrawlerResult crawl builds and returns
    readme_i,        \* crawl's README loop index (1-based)
    net,             \* observation: requests sent by crawl and what the paths produced
    exit_status,     \* main: the status of sys.exit, or Running
    steps,           \* observation: the steps main has started, in order
    observed,        \* observation: the requests of one _fetch_readme, the provider calls of one summarize_all
    notification     \* NotificationManager: its notifiers, and notify's summaries, loop index and results

summarizer_vars == <<settings, repos, top_pick_repos, i, summary, result, calls>>
crawler_vars == <<max_repos, crawler_result, readme_i, net>>
main_vars == <<exit_status, steps>>

vars == <<settings, repos, top_pick_repos, i, pc, attempt_number, outcome,
          summary, result, calls, max_repos, crawler_result, readme_i, net,
          exit_status, steps, observed, notification>>

-----------------------------------------------------------------------------
(* Bounds of the model *)

\* longest repository list given to summarize_all
MaxRepos == 2
\* largest stars_today of a repository
MaxStarsToday == 1
\* largest configured top_pick_count explored (config.py allows 1..5)
MaxTopPickCount == 2

\* largest configured max_repos explored (config.py allows 1..25)
MaxMaxRepos == 2
\* most article.Box-row elements on the trending page
MaxArticles == 3
\* most items in the search response
MaxItems == 3
\* longest list whose selection is explored
MaxSelected == 4

(* Program constants *)

\* stop_after_attempt(3)
MaxAttempts == 3
\* ProjectSummary.score default, and data.get("score", 3)
DefaultScore == 3
\* min(5, max(1, ...))
MinScore == 1
MaxScore == 5
\* [:3]
MaxFeatures == 3

None == "<None>"

-----------------------------------------------------------------------------
(* JSON values and Python helpers *)

JStr(s) == [str |-> s]
JInt(n) == [int |-> n]
JNull == [null |-> TRUE]
JList(l) == [list |-> l]
JObj(f) == [obj |-> f]

IsStr(v) == DOMAIN v = {"str"}
IsInt(v) == DOMAIN v = {"int"}
IsNull(v) == DOMAIN v = {"null"}
IsList(v) == DOMAIN v = {"list"}
IsObj(v) == DOMAIN v = {"obj"}

\* the empty dict and a function with no keys
EmptyDict == [k \in {} |-> JNull]

\* dict.get(key, default)
Get(d, key, default) == IF key \in DOMAIN d THEN d[key] ELSE default

Min(a, b) == IF a < b THEN a ELSE b
Max(a, b) == IF a > b THEN a ELSE b

\* seq[:n]
Take(s, n) == SubSeq(s, 1, Min(n, Len(s)))

\* x or y for strings
StrOr(x, y) == IF x # "" THEN x ELSE y

-----------------------------------------------------------------------------
(* Exceptions: a record of the class and, for tenacity's RetryError, the     *)
(* class of the exception of the last attempt that it wraps.                 *)

Exc(cls) == [cls |-> cls, cause |-> ""]
RetryError(last) == [cls |-> "RetryError", cause |-> last.cls]

\* the classes a class derives from (itself included)
Bases(cls) ==
    CASE cls = "JSONDecodeError" -> {"JSONDecodeError", "ValueError", "Exception"}
      [] cls = "ValueError" -> {"ValueError", "Exception"}
      [] cls = "TimeoutException" -> {"TimeoutException", "HTTPError", "Exception"}
      [] cls = "HTTPStatusError" -> {"HTTPStatusError", "HTTPError", "Exception"}
      [] cls = "ConnectError" -> {"ConnectError", "HTTPError", "Exception"}
      [] OTHER -> {cls, "Exception"}

\* isinstance(e, cls), as an except clause tests it
IsInstance(e, cls) == cls \in Bases(e.cls)

\* str(e)
ExcStr(e) ==
    CASE e.cls = "RetryError" -> "RetryError[<Future raised " \o e.cause \o ">]"
      [] e.cls = "NoClients" -> "No AI clients configured"
      [] e.cls = "NoFallback" -> "Primary LLM failed and no fallback configured"
      [] e.cls = "UnknownLLM" -> "Unknown LLM error"
      [] OTHER -> e.cls

\* what a call produces: a value or an exception
Return(v) == [returns |-> v]
Raise(e) == [raises |-> e]
Returned(r) == DOMAIN r = {"returns"}
Raised(r) == DOMAIN r = {"raises"}

-----------------------------------------------------------------------------
(* int(x) *)

DigitVal ==
    "0" :> 0 @@ "1" :> 1 @@ "2" :> 2 @@ "3" :> 3 @@ "4" :> 4 @@
    "5" :> 5 @@ "6" :> 6 @@ "7" :> 7 @@ "8" :> 8 @@ "9" :> 9

RECURSIVE DigitsValue(_, _)
DigitsValue(s, acc) ==
    IF s = <<>> THEN acc ELSE DigitsValue(Tail(s), 10 * acc + DigitVal[Head(s)])

RECURSIVE LStrip(_, _)
LStrip(s, blank) ==
    IF s # <<>> /\ Head(s) \in blank THEN LStrip(Tail(s), blank) ELSE s

RECURSIVE RStrip(_, _)
RStrip(s, blank) ==
    IF s # <<>> /\ s[Len(s)] \in blank THEN RStrip(SubSeq(s, 1, Len(s) - 1), blank) ELSE s

Strip(s, blank) == RStrip(LStrip(s, blank), blank)

\* int() of a str given as its characters: blanks stripped, an optional sign, digits
IntOfChars(s) ==
    LET t == Strip(s, {" "})
        signed == t # <<>> /\ Head(t) \in {"+", "-"}
        digits == IF signed THEN Tail(t) ELSE t
        sign == IF signed /\ Head(t) = "-" THEN -1 ELSE 1
    IN  IF digits # <<>> /\ \A k \in 1..Len(digits) : digits[k] \in DOMAIN DigitVal
        THEN Return(sign * DigitsValue(digits, 0))
        ELSE Raise(Exc("ValueError"))

\* a JSON string whose characters the code reads
JChars(s) == [chars |-> s]
IsChars(v) == DOMAIN v = {"chars"}

\* int(v) of a decoded JSON value
PyInt(v) ==
    IF IsInt(v) THEN Return(v.int)
    ELSE IF IsChars(v) THEN IntOfChars(v.chars)
    ELSE Raise(Exc("TypeError"))

-----------------------------------------------------------------------------
(* Response texts.  A text is a sequence of tokens: Tok(s) is the literal   *)
(* piece s, Doc(v) is a well-formed JSON document that denotes v.           *)

Tok(s) == [tok |-> s]
Doc(v) == [doc |-> v]
IsDoc(t) == DOMAIN t = {"doc"}
\* the three-backquote code fence
Fence == Tok("FENCE")
NL == Tok("NL")
Blank == {NL, Tok(" ")}

\* json.loads: blanks around exactly one document
JsonLoads(content) ==
    LET t == Strip(content, Blank)
    IN  IF Len(t) = 1 /\ IsDoc(t[1])
        THEN Return(t[1].doc)
        ELSE Raise(Exc("JSONDecodeError"))

\* re.sub of an opening fence, an optional "json" and an optional newline at
\* the start of content (which starts with the fence)
StripOpenFence(content) ==
    LET a == Tail(content)
        b == IF a # <<>> /\ Head(a) = Tok("json") THEN Tail(a) ELSE a
    IN  IF b # <<>> /\ Head(b) = NL THEN Tail(b) ELSE b

\* re.sub of an optional newline and a closing fence at the end of content
StripCloseFence(content) ==
    IF content # <<>> /\ content[Len(content)] = Fence
    THEN LET a == SubSeq(content, 1, Len(content) - 1)
         IN  IF a # <<>> /\ a[Len(a)] = NL THEN SubSeq(a, 1, Len(a) - 1) ELSE a
    ELSE content

\* AISummarizer._clean_json_response
CleanJsonResponse(content) ==
    LET c == Strip(content, Blank)
    IN  IF c # <<>> /\ Head(c) = Fence
        THEN JsonLoads(StripCloseFence(StripOpenFence(c)))
        ELSE JsonLoads(c)

-----------------------------------------------------------------------------
(* The two provider calls.  A provider's behaviour at one invocation is its *)
(* response: [error |-> cls] (the SDK call raises), or what it returns.     *)

\* AISummarizer._call_gemini: response.text is a text or None
CallGemini(response) ==
    IF "error" \in DOMAIN response THEN Raise(Exc(response.error))
    ELSE IF "text_none" \in DOMAIN response THEN Raise(Exc("AttributeError"))
    ELSE CleanJsonResponse(response.text)

\* the secondary call decoding the text as it came, fences and all
CallAnthropicNoClean(response) ==
    IF "error" \in DOMAIN response THEN Raise(Exc(response.error))
    ELSE JsonLoads(IF response.content # <<>>
                   THEN response.content[1]
                   ELSE <<Doc(JObj(EmptyDict))>>)

\* AISummarizer._call_anthropic: response.content is a list of blocks, maybe empty
CallAnthropic(response) ==
    IF "error" \in DOMAIN response THEN Raise(Exc(response.error))
    ELSE CleanJsonResponse(IF response.content # <<>>
                           THEN response.content[1]
                           ELSE <<Doc(JObj(EmptyDict))>>)

\* line 242: self.fallback_client and self.settings.fallback_model
FallbackUsable(s) == s.fallback_client /\ s.fallback_model # None

\* lines 250-258: no tier produced a result and none raised outward
NoTierError(s) ==
    IF ~s.primary_client /\ ~s.fallback_client THEN Exc("NoClients")
    ELSE IF s.primary_client THEN Exc("NoFallback")
    ELSE Exc("UnknownLLM")

\* tenacity: retry=retry_if_exception_type((Exception,))
RetryIf(e) == IsInstance(e, "Exception")

\* the stop condition off by one
StopAfterAttemptOffByOne(n) == n > MaxAttempts

\* tenacity: stop=stop_after_attempt(3)
StopAfterAttempt(n) == n >= MaxAttempts

-----------------------------------------------------------------------------
(* ProjectSummary and summarize_repo *)

ProjectSummary(repo) ==
    [repo |-> repo, one_liner_cn |-> "", core_features |-> <<>>, use_case |-> "",
     score |-> DefaultScore, score_reason |-> "", is_top_pick |-> FALSE,
     error |-> None]

ParseFailedHeadline == "parse failed"
ParseFailedFeatures == <<"parse failed, see the original project">>
ApiFailedHeadline == "API call failed"
ApiFailedFeatures == <<"API call failed, retry later">>

\* the clamp with its lower bound forgotten
ClampScoreUpperOnly(n) == Min(MaxScore, n)

\* min(5, max(1, n))
ClampScore(n) == Min(MaxScore, Max(MinScore, n))

\* data.get("core_features", [])[:3]; a value that is no list cannot be sliced
\* (string values of core_features are outside the modelled responses)
SliceFeatures(v) ==
    IF IsList(v) THEN Return(Take(v.list, MaxFeatures)) ELSE Raise(Exc("TypeError"))

\* lines 267-271: the assignments in order, stopping at the first that raises;
\* the summary so far and whether (and what) an assignment raised
ExtractFields(s, data) ==
    IF ~IsObj(data) THEN [summary |-> s, raised |-> TRUE, exc |-> Exc("AttributeError")]
    ELSE
    LET d == data.obj
        s1 == [s EXCEPT !.one_liner_cn = Get(d, "one_liner_cn", JStr("")).str]
        feats == SliceFeatures(Get(d, "core_features", JList(<<>>)))
    IN  IF Raised(feats) THEN [summary |-> s1, raised |-> TRUE, exc |-> feats.raises]
        ELSE
        LET s2 == [s1 EXCEPT !.core_features = feats.returns]
            s3 == [s2 EXCEPT !.use_case = Get(d, "use_case", JStr("")).str]
            n == PyInt(Get(d, "score", JInt(DefaultScore)))
        IN  IF Raised(n) THEN [summary |-> s3, raised |-> TRUE, exc |-> n.raises]
            ELSE
            LET s4 == [s3 EXCEPT !.score = ClampScore(n.returns)]
                s5 == [s4 EXCEPT !.score_reason = Get(d, "score_reason", JStr("")).str]
            IN  [summary |-> s5, raised |-> FALSE, exc |-> Exc("")]

\* lines 273-277: except json.JSONDecodeError
OnJsonDecodeError(s, e) ==
    [s EXCEPT !.error = "JSON parse error: " \o ExcStr(e),
              !.one_liner_cn = StrOr(s.repo.description, ParseFailedHeadline),
              !.core_features = ParseFailedFeatures]

\* the handler forgetting the placeholder feature list
OnExceptionNoFeatures(s, e) ==
    [s EXCEPT !.error = ExcStr(e),
              !.one_liner_cn = StrOr(s.repo.description, ApiFailedHeadline)]

\* lines 279-283: except Exception
OnException(s, e) ==
    [s EXCEPT !.error = ExcStr(e),
              !.one_liner_cn = StrOr(s.repo.description, ApiFailedHeadline),
              !.core_features = ApiFailedFeatures]

\* summarize_repo without its catch-all clause
HandleJsonDecodeErrorOnly(s, e) ==
    IF IsInstance(e, "JSONDecodeError") THEN Return(OnJsonDecodeError(s, e))
    ELSE Raise(e)

\* lines 273-285: the except clauses in order; an exception none matches leaves
\* summarize_repo
Handle(s, e) ==
    IF IsInstance(e, "JSONDecodeError") THEN Return(OnJsonDecodeError(s, e))
    ELSE IF IsInstance(e, "Exception") THEN Return(OnException(s, e))
    ELSE Raise(e)

\* lines 264-285 once the retried call has ended with out
FinishSummary(s, out) ==
    IF Raised(out) THEN Handle(s, out.raises)
    ELSE LET x == ExtractFields(s, out.returns)
         IN  IF x.raised THEN Handle(x.summary, x.exc) ELSE Return(x.summary)

-----------------------------------------------------------------------------
(* _truncate_readme.  A README is a sequence of pieces [ch |-> c, n |-> k],  *)
(* k consecutive characters c.  Only a blank or an ordinary character (none  *)
(* of ! ( ) [ ] < > and no newline) is given with k > 1, so that a text      *)
(* longer than MAX_README_CHARS is modelled at its true length.             *)

\* line 35
MAX_README_CHARS == 2000

Ch(c) == [ch |-> c, n |-> 1]
Run(c, k) == [ch |-> c, n |-> k]
Chars(cs) == [k \in 1..Len(cs) |-> Ch(cs[k])]

\* len(content)
RECURSIVE ReadmeLen(_)
ReadmeLen(t) == IF t = <<>> THEN 0 ELSE Head(t).n + ReadmeLen(Tail(t))

\* what \s matches and what str.strip() removes
IsBlank(piece) == piece.ch \in {" ", "\n"}
Blanks(t) == {t[k] : k \in {n \in DOMAIN t : IsBlank(t[n])}}

\* the two patterns of lines 167-168
MarkdownImagePattern == "!\\s*\\(.*?\\)"
ImgTagPattern == "<img[^>]*>"

\* \s* from k: the index of the first piece that is no blank
RECURSIVE SkipBlanks(_, _)
SkipBlanks(t, k) ==
    IF k <= Len(t) /\ IsBlank(t[k]) THEN SkipBlanks(t, k + 1) ELSE k

\* .*?\) from k: the index of the first ")" with no newline before it, 0 if none
RECURSIVE LazyToParen(_, _)
LazyToParen(t, k) ==
    IF k > Len(t) THEN 0
    ELSE IF t[k] = Ch(")") THEN k
    ELSE IF t[k] = Ch("\n") THEN 0
    ELSE LazyToParen(t, k + 1)

\* [^>]*> from k: the index of the first ">", 0 if none
RECURSIVE ToCloseAngle(_, _)
ToCloseAngle(t, k) ==
    IF k > Len(t) THEN 0
    ELSE IF t[k] = Ch(">") THEN k
    ELSE ToCloseAngle(t, k + 1)

\* the match of the pattern that starts at piece p: the index of its last
\* piece, 0 if the pattern does not match there
MatchAt(pattern, t, p) ==
    IF pattern = MarkdownImagePattern
    THEN IF t[p] # Ch("!") THEN 0
         ELSE LET q == SkipBlanks(t, p + 1)
              IN  IF q <= Len(t) /\ t[q] = Ch("(") THEN LazyToParen(t, q + 1) ELSE 0
    ELSE IF p + 3 <= Len(t) /\ SubSeq(t, p, p + 3) = Chars(<<"<", "i", "m", "g">>)
         THEN ToCloseAngle(t, p + 4)
         ELSE 0

\* re.sub(pattern, "", t) from piece p on: one pass from left to right, each
\* match removed, the scan resumed behind it
RECURSIVE ReSub(_, _, _)
ReSub(pattern, t, p) ==
    IF p > Len(t) THEN <<>>
    ELSE IF MatchAt(pattern, t, p) > 0 THEN ReSub(pattern, t, MatchAt(pattern, t, p) + 1)
    ELSE <<t[p]>> \o ReSub(pattern, t, p + 1)

\* lines 167-168
StripMarkup(content) ==
    ReSub(ImgTagPattern, ReSub(MarkdownImagePattern, content, 1), 1)

\* content[:k]
RECURSIVE Slice(_, _)
Slice(t, k) ==
    IF t = <<>> \/ k <= 0 THEN <<>>
    ELSE IF Head(t).n <= k THEN <<Head(t)>> \o Slice(Tail(t), k - Head(t).n)
    ELSE <<Run(Head(t).ch, k)>>

\* "\n... (content truncated)"
TruncationMarker ==
    Chars(<<"\n", ".", ".", ".", " ", "(", "c", "o", "n", "t", "e", "n", "t", " ",
            "t", "r", "u", "n", "c", "a", "t", "e", "d", ")">>)

\* "(README content is empty)", 13 characters in the source
EmptyReadme == <<[ch |-> "(README content is empty)", n |-> 13]>>

CutWithoutMarker(content) == Slice(content, MAX_README_CHARS)

\* lines 171-172
Cut(content) ==
    IF ReadmeLen(content) > MAX_README_CHARS
    THEN Slice(content, MAX_README_CHARS) \o TruncationMarker
    ELSE content

\* lines 161-174
TruncateReadme(content) ==
    IF content = <<>> THEN EmptyReadme
    ELSE LET stripped == Strip(Cut(StripMarkup(content)), Blanks(Cut(StripMarkup(content))))
         IN  IF stripped = <<>> THEN EmptyReadme ELSE stripped

-----------------------------------------------------------------------------
(* Selection and ordering in summarize_all *)

\* tuple comparison of Python: a > b on tuples of integers of equal length
RECURSIVE TupleGreater(_, _)
TupleGreater(a, b) ==
    IF a = <<>> THEN FALSE
    ELSE IF Head(a) # Head(b) THEN Head(a) > Head(b)
    ELSE TupleGreater(Tail(a), Tail(b))

\* one step of a stable descending sort: x goes behind every element whose key
\* is not smaller than its own
RECURSIVE InsertDesc(_, _)
InsertDesc(sorted, x) ==
    IF sorted = <<>> THEN <<x>>
    ELSE IF TupleGreater(x.key, Head(sorted).key) THEN <<x>> \o sorted
    ELSE <<Head(sorted)>> \o InsertDesc(Tail(sorted), x)

\* sorted(..., reverse=True) / list.sort(reverse=True) on [key, item] pairs:
\* descending by key, equal keys keep their order
RECURSIVE SortDesc(_)
SortDesc(pairs) ==
    IF pairs = <<>> THEN <<>>
    ELSE InsertDesc(SortDesc(SubSeq(pairs, 1, Len(pairs) - 1)), pairs[Len(pairs)])

Items(pairs) == [k \in 1..Len(pairs) |-> pairs[k].item]

HasGrowth(r) == r.stars_today > 0

\* line 300: sorted(repos_with_growth, key=lambda r: r.stars_today, reverse=True)
\* the sort with equal growth ordered from the last position to the first
SortByGrowthLatestFirst(rs) ==
    Items(SortDesc([k \in 1..Len(rs) |-> [key |-> <<rs[k].stars_today, k>>, item |-> rs[k]]]))

SortByGrowth(rs) ==
    Items(SortDesc([k \in 1..Len(rs) |-> [key |-> <<rs[k].stars_today>>, item |-> rs[k]]]))

\* the choice of lines 298-303 without the growth pool
TopPickReposByPosition(rs, count) ==
    {Take(rs, count)[k].name : k \in 1..Len(Take(rs, count))}

\* the choice of lines 298-303 without the else branch
TopPickReposGrowthOnly(rs, count) ==
    LET chosen == Take(SortByGrowth(SelectSeq(rs, HasGrowth)), count)
    IN  {chosen[k].name : k \in 1..Len(chosen)}

\* lines 298-303
TopPickRepos(rs, count) ==
    LET repos_with_growth == SelectSeq(rs, HasGrowth)
        chosen == IF repos_with_growth # <<>>
                  THEN Take(SortByGrowth(repos_with_growth), count)
                  ELSE Take(rs, count)
    IN  {chosen[k].name : k \in 1..Len(chosen)}

\* line 317 with the score as the only key
SortTopPicksByScoreOnly(ss) ==
    Items(SortDesc([k \in 1..Len(ss) |-> [key |-> <<ss[k].score>>, item |-> ss[k]]]))

\* line 317: top_picks.sort(key=lambda s: (s.score, s.repo.stars_today), reverse=True)
SortTopPicksByScore(ss) ==
    Items(SortDesc([k \in 1..Len(ss) |->
                      [key |-> <<ss[k].score, ss[k].repo.stars_today>>, item |-> ss[k]]]))

\* SummaryResult()
SummaryResult == [top_picks |-> <<>>, quick_looks |-> <<>>]

-----------------------------------------------------------------------------
(* Inputs: settings, repository lists, provider responses *)

\* Settings as AISummarizer reads them (config.py: top_pick_count is 1..5)
AllSettings ==
    [primary_client : BOOLEAN, fallback_client : BOOLEAN,
     fallback_model : {None, "fallback-model"},
     top_pick_count : 1..MaxTopPickCount]

Names == {"owner/a", "owner/b"}

\* Repository objects at position k of a list; id stands for the object's identity
Repositories(k, descriptions) ==
    [id : {k}, name : Names, description : descriptions,
     stars_today : 0..MaxStarsToday]

RepoLists(n, descriptions) ==
    {l \in [1..n -> UNION {Repositories(k, descriptions) : k \in 1..n}] :
        \A k \in 1..n : l[k].id = k}

Absent == [absent |-> TRUE]

Field(key, v) == IF v = Absent THEN EmptyDict ELSE key :> v

\* a JSON object of the requested shape, keys left out where Absent
SummaryObject(headline, features, use_case, score, reason) ==
    JObj(Field("one_liner_cn", headline) @@ Field("core_features", features) @@
         Field("use_case", use_case) @@ Field("score", score) @@
         Field("score_reason", reason))

FourFeatures == JList(<<"feature 1", "feature 2", "feature 3", "feature 4">>)

ScoreValues ==
    {Absent, JNull, JInt(0), JInt(4), JInt(7), JChars(<<"5">>), JChars(<<"a", "b">>)}

FeatureValues == {Absent, JNull, JList(<<"feature 1">>), FourFeatures}

\* objects: the three string fields all present or all absent
RichObjects ==
    {SummaryObject(JStr("headline"), f, JStr("use case"), sc, JStr("reason")) :
        f \in FeatureValues, sc \in ScoreValues}
    \cup {SummaryObject(Absent, f, Absent, sc, Absent) :
        f \in FeatureValues, sc \in ScoreValues}

Garbage == <<Tok("Sorry, I cannot help with that.")>>

\* ways a model wraps its answer: [before, after]
Wrappings ==
    {<<<<>>, <<>>>>,
     <<<<>>, <<NL>>>>,
     <<<<Fence, Tok("json"), NL>>, <<NL, Fence>>>>,
     <<<<Fence, NL>>, <<NL, Fence>>>>,
     <<<<Fence, Tok("json"), NL>>, <<>>>>,
     <<<<Fence, Tok("python"), NL>>, <<NL, Fence>>>>,
     <<<<Tok("Here is the JSON:"), NL, Fence, Tok("json"), NL>>, <<NL, Fence>>>>}

GoodObject == SummaryObject(JStr("headline"), FourFeatures, JStr("use case"), JInt(4), JStr("reason"))

RichTexts ==
    {<<Doc(o)>> : o \in RichObjects}
    \cup {w[1] \o <<Doc(GoodObject)>> \o w[2] : w \in Wrappings}
    \cup {Garbage, <<>>, <<Doc(JList(<<>>))>>, <<Doc(JNull)>>}

RichGemini ==
    {[error |-> "APIError"], [text_none |-> TRUE]} \cup {[text |-> t] : t \in RichTexts}

RichAnthropic ==
    {[error |-> "APIError"], [content |-> <<>>]} \cup {[content |-> <<t>>] : t \in RichTexts}

\* a few responses, for runs over several repositories
FewTexts ==
    {<<Doc(SummaryObject(JStr("headline"), FourFeatures, JStr("use case"), sc, JStr("reason")))>> :
        sc \in {JInt(2), JInt(7)}}
    \cup {Garbage}

FewGemini == {[error |-> "APIError"]} \cup {[text |-> t] : t \in FewTexts}
FewAnthropic == {[error |-> "APIError"]} \cup {[content |-> <<t>>] : t \in FewTexts}

(* READMEs *)

\* most pieces of text a README is put together from
MaxPieces == 3

\* ![a](u), <img s>, !(u), a blank, a newline, ordinary text of 1,
\* MAX_README_CHARS - 1 and MAX_README_CHARS + 1 characters, and
\* MAX_README_CHARS + 1 blanks
ReadmePieces ==
    {Chars(<<"!", "[", "a", "]", "(", "u", ")">>),
     Chars(<<"<", "i", "m", "g", " ", "s", ">">>),
     Chars(<<"!", "(", "u", ")">>),
     <<Ch(" ")>>,
     <<Ch("\n")>>,
     <<Run("x", 1)>>,
     <<Run("x", MAX_README_CHARS - 1)>>,
     <<Run("x", MAX_README_CHARS + 1)>>,
     <<Run(" ", MAX_README_CHARS + 1)>>}

RECURSIVE Concat(_)
Concat(ts) == IF ts = <<>> THEN <<>> ELSE Head(ts) \o Concat(Tail(ts))

Readmes == {Concat(ts) : ts \in UNION {[1..k -> ReadmePieces] : k \in 0..MaxPieces}}


-----------------------------------------------------------------------------
(* The crawler (src/src/crawler.py).  An href or a repository name is a     *)
(* sequence of tokens, each "/" or a non-empty piece without a slash; the   *)
(* text of an element is the sequence of its characters, or of its words    *)
(* (each a sequence of characters) where the code splits it.  An HTTP        *)
(* exchange is [error |-> cls] (the client raises) or [status, body].       *)
(* Repository.url and Repository.language are left out: no step reads them. *)

\* Settings.max_repos default
DefaultMaxRepos == 15
\* stop_after_attempt(3) of _fetch_trending_page and of _fetch_via_search_api
TrendingAttempts == 3
SearchAttempts == 3

\* CrawlerResult()
CrawlerResult == [repos |-> <<>>, source |-> "trending"]

\* Repository(...): readme_content defaults to ""; id stands for the object's
\* identity and is its position in the list that holds it
Repository(name, description, stars, stars_today) ==
    [id |-> 0, name |-> name, description |-> description, stars |-> stars,
     stars_today |-> stars_today, readme_content |-> ""]

Numbered(rs) == [k \in 1..Len(rs) |-> [rs[k] EXCEPT !.id = k]]

Range(s) == {s[k] : k \in 1..Len(s)}

\* str.replace(",", "")
RemoveCommas(w) == SelectSeq(w, LAMBDA c : c # ",")

\* str.isdigit()
IsDigit(w) == w # <<>> /\ \A k \in 1..Len(w) : w[k] \in DOMAIN DigitVal

\* lines 137-141
StarsOf(stars_elem) ==
    IF stars_elem = Absent THEN 0
    ELSE LET stars_text == RemoveCommas(stars_elem.chars)
         IN  IF IsDigit(stars_text) THEN DigitsValue(stars_text, 0) ELSE 0

\* lines 148-155: split()[0] of a text without words raises IndexError
StarsTodayOf(today_elem) ==
    IF today_elem = Absent THEN Return(0)
    ELSE IF today_elem.words = <<>> THEN Raise(Exc("IndexError"))
    ELSE LET stars_today_str == RemoveCommas(today_elem.words[1])
         IN  Return(IF IsDigit(stars_today_str)
                    THEN DigitsValue(stars_today_str, 0) ELSE 0)

\* line 126: not (not name or "/" not in name)
NameAccepted(name) == name # <<>> /\ "/" \in Range(name)

\* lines 120-170: the records one article adds to repos, none when the article
\* is skipped or its parsing raises
ParseArticle(article) ==
    IF article.link = Absent THEN <<>>
    ELSE LET name == Strip(article.link.href, {"/"})
         IN  IF ~NameAccepted(name) THEN <<>>
             ELSE IF Raised(StarsTodayOf(article.today)) THEN <<>>
             ELSE <<Repository(name,
                               IF article.desc = Absent THEN "" ELSE article.desc.text,
                               StarsOf(article.stars),
                               StarsTodayOf(article.today).returns)>>

RECURSIVE ParseArticles(_)
ParseArticles(articles) ==
    IF articles = <<>> THEN <<>>
    ELSE ParseArticle(Head(articles)) \o ParseArticles(Tail(articles))

\* lines 114-172
ParseTrendingHtml(html, n) == Numbered(Take(ParseArticles(html), n))

\* lines 202-211 with stars_today read from the item's star count
RepositoryOfItemWithStars(item) ==
    IF "full_name" \notin DOMAIN item.obj \/ "html_url" \notin DOMAIN item.obj
    THEN Raise(Exc("KeyError"))
    ELSE Return(Repository(item.obj.full_name.str, "",
                           Get(item.obj, "stargazers_count", JInt(0)).int,
                           Get(item.obj, "stargazers_count", JInt(0)).int))

\* lines 202-211: the Repository of one item of the search response
RepositoryOfItem(item) ==
    IF "full_name" \notin DOMAIN item.obj \/ "html_url" \notin DOMAIN item.obj
    THEN Raise(Exc("KeyError"))
    ELSE LET description == Get(item.obj, "description", JNull)
         IN  Return(Repository(item.obj.full_name.str,
                               IF IsNull(description) THEN "" ELSE description.str,
                               Get(item.obj, "stargazers_count", JInt(0)).int,
                               0))

\* lines 200-213: the loop stops at the first item that raises
RECURSIVE RepositoriesOfItems(_)
RepositoriesOfItems(items) ==
    IF items = <<>> THEN Return(<<>>)
    ELSE LET first == RepositoryOfItem(Head(items))
             rest == RepositoriesOfItems(Tail(items))
         IN  IF Raised(first) THEN first
             ELSE IF Raised(rest) THEN rest
             ELSE Return(<<first.returns>> \o rest.returns)

NotJson == [not_json |-> TRUE]

\* lines 196-213: one run of the body of _fetch_via_search_api
FetchViaSearchApi(response) ==
    IF "error" \in DOMAIN response THEN Raise(Exc(response.error))
    ELSE IF response.status >= 400 THEN Raise(Exc("HTTPStatusError"))
    ELSE IF response.body = NotJson THEN Raise(Exc("JSONDecodeError"))
    ELSE IF ~IsObj(response.body) THEN Raise(Exc("AttributeError"))
    ELSE LET rs == RepositoriesOfItems(Get(response.body.obj, "items", JList(<<>>)).list)
         IN  IF Raised(rs) THEN rs ELSE Return(Numbered(rs.returns))

\* lines 110-112: one run of the body of _fetch_trending_page
FetchTrendingPage(response) ==
    IF "error" \in DOMAIN response THEN Raise(Exc(response.error))
    ELSE IF response.status >= 400 THEN Raise(Exc("HTTPStatusError"))
    ELSE Return(response.body)

\* lines 89, 177: retry_if_exception_type((httpx.HTTPError, httpx.TimeoutException))
RetryIfHttp(e) == IsInstance(e, "HTTPError") \/ IsInstance(e, "TimeoutException")

\* line 237
ReadmeNames == <<"README.md", "readme.md", "README", "readme.rst">>

\* base64 text that decodes to text, and text that is not base64
B64(text) == [b64 |-> text]
BadB64 == [bad_b64 |-> TRUE]

\* lines 237-241: the raw probes from the k-th on; None when the loop ends
RECURSIVE RawProbes(_, _)
RawProbes(raw, k) ==
    IF k > Len(ReadmeNames) THEN Return(None)
    ELSE IF "error" \in DOMAIN raw[k] THEN Raise(Exc(raw[k].error))
    ELSE IF raw[k].status = 200 THEN Return(raw[k].body.text)
    ELSE RawProbes(raw, k + 1)

\* lines 224-241: the try block; api answers the structured endpoint, raw[k]
\* the probe of ReadmeNames[k]
ReadmeTry(api, raw) ==
    IF "error" \in DOMAIN api THEN Raise(Exc(api.error))
    ELSE IF api.status # 200 THEN RawProbes(raw, 1)
    ELSE IF api.body = NotJson THEN Raise(Exc("JSONDecodeError"))
    ELSE IF ~IsObj(api.body) THEN Raise(Exc("AttributeError"))
    ELSE LET content == Get(api.body.obj, "content", JStr(""))
         IN  IF content = JStr("") THEN RawProbes(raw, 1)
             ELSE IF content = BadB64 THEN Raise(Exc("binascii.Error"))
             ELSE Return(content.b64)

\* _fetch_readme without its except clause
FetchReadmeUncaught(api, raw) ==
    IF Raised(ReadmeTry(api, raw)) THEN ReadmeTry(api, raw)
    ELSE IF ReadmeTry(api, raw).returns = None THEN Return("")
    ELSE ReadmeTry(api, raw)

\* lines 220-246: every exception of the try block is caught, so the call
\* always returns and tenacity never runs the body a second time
FetchReadme(api, raw) ==
    IF Raised(ReadmeTry(api, raw)) THEN Return("")
    ELSE IF ReadmeTry(api, raw).returns = None THEN Return("")
    ELSE ReadmeTry(api, raw)

\* the structured request is answered without a README: the raw probes run
ReachesRaw(api) ==
    /\ "error" \notin DOMAIN api
    /\ \/ api.status # 200
       \/ IsObj(api.body) /\ Get(api.body.obj, "content", JStr("")) = JStr("")

\* lines 237-241: the raw probes sent from the k-th on, each with its answer
RECURSIVE ProbesSent(_, _)
ProbesSent(raw, k) ==
    IF k > Len(ReadmeNames) THEN <<>>
    ELSE <<[to |-> ReadmeNames[k], answer |-> raw[k]]>> \o
         (IF "error" \in DOMAIN raw[k] THEN <<>>
          ELSE IF raw[k].status = 200 THEN <<>>
          ELSE ProbesSent(raw, k + 1))

\* lines 224-241: the requests one _fetch_readme sends, in order, each with
\* its answer
ReadmeRequests(api, raw) ==
    <<[to |-> "readme", answer |-> api]>> \o
    (IF ReachesRaw(api) THEN ProbesSent(raw, 1) ELSE <<>>)

\* how the README of a record was obtained, for the observation
ReadmeOrigin(api, raw) ==
    IF Raised(ReadmeTry(api, raw)) THEN "raised"
    ELSE IF ReadmeTry(api, raw).returns = None THEN "not found"
    ELSE IF ReachesRaw(api) THEN "raw"
    ELSE "structured"

\* the except clause of crawl's inner try handing back an empty list
OnSearchFailureSwallowed(api_error) == Return(<<>>)

\* lines 281-283: raise RuntimeError("All crawling methods failed") from api_error
OnSearchFailure(api_error) == Raise([cls |-> "RuntimeError", cause |-> api_error.cls])

\* line 266 taking every parse result
ParsedAnyAlways(parsed) == TRUE

\* line 266: if repos
ParsedAny(parsed) == parsed # <<>>

\* lines 86-93, 174-178: what tenacity does with the result r of attempt number
\* n of a fetch: hand it back, run the body again, or give up
AfterFetchRetryingAll(r, n, stop) ==
    IF Returned(r) THEN [outcome |-> r, again |-> FALSE]
    ELSE IF n >= stop THEN [outcome |-> Raise(RetryError(r.raises)), again |-> FALSE]
    ELSE [outcome |-> r, again |-> TRUE]

AfterFetch(r, n, stop) ==
    IF Returned(r) THEN [outcome |-> r, again |-> FALSE]
    ELSE IF ~RetryIfHttp(r.raises) THEN [outcome |-> r, again |-> FALSE]
    ELSE IF n >= stop THEN [outcome |-> Raise(RetryError(r.raises)), again |-> FALSE]
    ELSE [outcome |-> r, again |-> TRUE]

-----------------------------------------------------------------------------
(* The notifiers (src/src/notifier.py).  What a platform answers to one     *)
(* httpx.post is [error |-> cls] or [status, body]; the payload builders,   *)
(* which only format the first five summaries, are left out.                *)

\* stop_after_attempt(3) of every send
SendAttempts == 3
\* result.quick_looks[:3]
MaxQuickLooksSent == 3

\* lines 224-243: the notifiers in the order _init_notifiers appends them;
\* Telegram needs its token and its chat id
InitNotifiers(cfg) ==
    (IF cfg.feishu_webhook_url THEN <<"Feishu">> ELSE <<>>) \o
    (IF cfg.dingtalk_webhook_url THEN <<"DingTalk">> ELSE <<>>) \o
    (IF cfg.slack_webhook_url THEN <<"Slack">> ELSE <<>>) \o
    (IF cfg.telegram_bot_token /\ cfg.telegram_chat_id THEN <<"Telegram">> ELSE <<>>)

\* line 260
SummariesToSend(res) ==
    IF res.top_picks # <<>> THEN res.top_picks ELSE Take(res.quick_looks, MaxQuickLooksSent)

\* lines 82-87 (and 120-125, 167-172, 201-211): the body of send
Send(response) ==
    IF "error" \in DOMAIN response THEN Raise(Exc(response.error))
    ELSE IF response.status >= 400 THEN Raise(Exc("HTTPStatusError"))
    ELSE Return(TRUE)

\* line 81: tenacity around send, every exception retried; what leaves the
\* retried call after attempt n, or again
AfterSend(r, n) ==
    IF Returned(r) THEN [outcome |-> r, again |-> FALSE]
    ELSE IF n >= SendAttempts THEN [outcome |-> Raise(RetryError(r.raises)), again |-> FALSE]
    ELSE [outcome |-> r, again |-> TRUE]

\* the loop of notify leaving at the first notifier that failed
RecordedUnlessFailed(r) ==
    IF Raised(r) THEN [ok |-> FALSE, continue |-> FALSE]
    ELSE [ok |-> r.returns, continue |-> TRUE]

\* lines 268-272: what notify records for a notifier whose send ended with r,
\* and whether the loop goes on
Recorded(r) ==
    IF Raised(r) THEN [ok |-> FALSE, continue |-> TRUE]
    ELSE [ok |-> r.returns, continue |-> TRUE]

\* results[name] = ok
SetItem(results, name, ok) ==
    [n \in DOMAIN results \cup {name} |-> IF n = name THEN ok ELSE results[n]]

-----------------------------------------------------------------------------
(* Inputs of the crawler: what the three remote endpoints answer *)

HttpError(cls) == [error |-> cls]
Http(status, body) == [status |-> status, body |-> body]

Link(href) == [href |-> href]
Article(link, desc, stars, today) ==
    [link |-> link, desc |-> desc, stars |-> stars, today |-> today]

StarsToday50 == [words |-> << <<"5", "0">>, <<"stars">>, <<"today">> >>]
StarsToday1200 == [words |-> << <<"1", ",", "2", "0", "0">>, <<"stars">>, <<"today">> >>]
StarsTodayMany == [words |-> << <<"many">>, <<"stars">>, <<"today">> >>]
NoWords == [words |-> <<>>]

\* article.Box-row elements: without a link, with an href that is no repository
\* path, /owner/a with each form of the stars-today text, /owner/b, and a
\* deeper path
Articles ==
    {Article(Absent, Absent, Absent, Absent),
     Article(Link(<<"/">>), Absent, Absent, Absent),
     Article(Link(<<"/", "solo">>), Absent, Absent, Absent),
     Article(Link(<<"/", "owner", "/", "b">>), Absent, Absent, StarsToday1200),
     Article(Link(<<"/", "owner", "/", "a", "/", "tree">>), Absent, Absent, Absent)}
    \cup
    {Article(Link(<<"/", "owner", "/", "a">>), [text |-> "a description"],
             [chars |-> <<"1", ",", "2">>], today) :
        today \in {Absent, NoWords, StarsToday50, StarsTodayMany}}

Pages(n, articles) == UNION {[1..k -> articles] : k \in 0..n}

\* what github.com/trending answers
TrendingResponses(n, articles) ==
    {HttpError("TimeoutException"), HttpError("InvalidURL"), Http(503, <<>>)}
    \cup {Http(200, page) : page \in Pages(n, articles)}

SearchItem(full_name, html_url, description, stars) ==
    JObj(Field("full_name", full_name) @@ Field("html_url", html_url) @@
         Field("description", description) @@ Field("stargazers_count", stars))

SearchItems ==
    {SearchItem(JStr(<<"owner", "/", "a">>), JStr("url"), JStr("a description"), JInt(7)),
     SearchItem(JStr(<<"solo">>), JStr("url"), JNull, Absent),
     SearchItem(Absent, JStr("url"), Absent, Absent),
     SearchItem(JStr(<<"owner", "/", "a">>), Absent, Absent, Absent)}

\* what api.github.com/search/repositories answers
SearchResponses(n, items) ==
    {HttpError("TimeoutException"), Http(403, NotJson), Http(200, NotJson),
     Http(200, JList(<<>>)), Http(200, JObj(EmptyDict))}
    \cup {Http(200, JObj("items" :> JList(l))) : l \in Pages(n, items)}

\* what the structured README endpoint answers
ReadmeResponses ==
    {HttpError("ConnectError"), Http(404, NotJson), Http(200, NotJson),
     Http(200, JObj(EmptyDict)), Http(200, JObj("content" :> B64("the readme"))),
     Http(200, JObj("content" :> BadB64))}

\* every combination of answers to the four probes
AllRawResponses ==
    [1..Len(ReadmeNames) ->
        {HttpError("ConnectError"), Http(404, [text |-> "404: Not Found"]),
         Http(200, [text |-> "the raw readme"])}]

\* what raw.githubusercontent.com answers to the four probes: 404 up to the
\* probe that ends the loop (by a 200 or by an error), if one does; the
\* answers behind that probe are never requested
RawResponses ==
    {raw \in [1..Len(ReadmeNames) ->
                {HttpError("ConnectError"), Http(404, [text |-> "404: Not Found"]),
                 Http(200, [text |-> "the raw readme"])}] :
        \A k \in 1..Len(ReadmeNames) :
            raw[k] # Http(404, [text |-> "404: Not Found"]) =>
                \A m \in 1..Len(ReadmeNames) :
                    m # k => raw[m] = Http(404, [text |-> "404: Not Found"])}

-----------------------------------------------------------------------------
(* The state machine: one thread of control running summarize_all *)

NoOutcome == [none |-> TRUE]
NoSummary == [none |-> TRUE]
NotInvoked == [not_invoked |-> TRUE]
\* observation of the current summarize_repo: runs of the retried body, provider
\* invocations, waits, the responses of the last attempt and the tier whose
\* payload it returned
NoCalls ==
    [body_runs |-> 0, primary |-> 0, fallback |-> 0, backoffs |-> 0,
     g |-> NotInvoked, a |-> NotInvoked, tier |-> "none"]

\* observation of crawl: requests sent to the two listings, how the fetch of
\* the page ended and how many records its parsing yielded, how the search
\* ended, the list as acquired, and how each README was obtained
NoNet ==
    [trending_calls |-> 0, search_calls |-> 0,
     primary |-> "pending", parsed |-> 0, secondary |-> "not queried",
     acquired |-> <<>>, readmes |-> <<>>]

\* nothing requested by _fetch_readme, no provider invoked by summarize_all;
\* only the specifications that watch these change it
NoObservation == [requests |-> <<>>, primary |-> 0, fallback |-> 0]

\* a NotificationManager without notifiers whose notify has not run
NoResults == [name \in {} |-> FALSE]
NoNotification == [notifiers |-> <<>>, summaries |-> <<>>, k |-> 0, results |-> NoResults]

\* main has not called sys.exit; sys.exit(code)
Running == [running |-> TRUE]
Exit(code) == [code |-> code]

InitWith(lists, settingsSet) ==
    /\ settings \in settingsSet
    /\ repos \in lists
    /\ top_pick_repos = {}
    /\ i = 0
    /\ pc = "summarize_all"
    /\ attempt_number = 0
    /\ outcome = NoOutcome
    /\ summary = NoSummary
    /\ result = SummaryResult
    /\ calls = NoCalls
    /\ max_repos = DefaultMaxRepos
    /\ crawler_result = CrawlerResult
    /\ readme_i = 0
    /\ net = NoNet
    /\ exit_status = Running
    /\ steps = <<>>
    /\ observed = NoObservation
    /\ notification = NoNotification

\* lines 291-303: an empty list returns at once, otherwise the top picks are chosen
SummarizeAllBegin ==
    /\ pc = "summarize_all"
    /\ IF repos = <<>>
       THEN /\ pc' = "done"
            /\ UNCHANGED <<top_pick_repos, i>>
       ELSE /\ top_pick_repos' = TopPickRepos(repos, settings.top_pick_count)
            /\ i' = 1
            /\ pc' = "summarize_repo"
    /\ UNCHANGED <<settings, repos, attempt_number, outcome, summary, result, calls>>
    /\ UNCHANGED <<crawler_vars, main_vars>>
    /\ UNCHANGED <<observed, notification>>

\* lines 306-308, 262-265: the loop enters summarize_repo for repos[i], which
\* enters the retried call
SummarizeRepoBegin ==
    /\ pc = "summarize_repo"
    /\ summary' = ProjectSummary(repos[i])
    /\ attempt_number' = 0
    /\ outcome' = NoOutcome
    /\ calls' = NoCalls
    /\ pc' = "call_llm"
    /\ UNCHANGED <<settings, repos, top_pick_repos, i, result>>
    /\ UNCHANGED <<crawler_vars, main_vars>>
    /\ UNCHANGED <<observed, notification>>

\* tenacity granting one attempt more than stop_after_attempt(3)
AfterAttemptOneMore(r, n) ==
    IF Returned(r) THEN [outcome |-> r, pc |-> "extract"]
    ELSE IF n > MaxAttempts THEN [outcome |-> Raise(RetryError(r.raises)), pc |-> "extract"]
    ELSE [outcome |-> r, pc |-> "backoff"]

\* lines 223-228: what tenacity does with the result r of attempt number n:
\* hand a value back, wait and run the body again, or give up
AfterAttempt(r, n) ==
    IF Returned(r) THEN [outcome |-> r, pc |-> "extract"]
    ELSE IF ~RetryIf(r.raises) THEN [outcome |-> r, pc |-> "extract"]
    ELSE IF StopAfterAttempt(n) THEN [outcome |-> Raise(RetryError(r.raises)), pc |-> "extract"]
    ELSE [outcome |-> r, pc |-> "backoff"]

\* an attempt that ends with r, the primary having answered g and the secondary a
\* (NotInvoked for a provider that was not called in this attempt)
AttemptEnds(r, g, a, tier) ==
    /\ attempt_number' = attempt_number + 1
    /\ outcome' = AfterAttempt(r, attempt_number + 1).outcome
    /\ pc' = AfterAttempt(r, attempt_number + 1).pc
    /\ calls' = [calls EXCEPT !.body_runs = @ + 1,
                              !.primary = @ + (IF g = NotInvoked THEN 0 ELSE 1),
                              !.fallback = @ + (IF a = NotInvoked THEN 0 ELSE 1),
                              !.g = g,
                              !.a = a,
                              !.tier = IF Returned(r) THEN tier ELSE "none"]
    /\ UNCHANGED <<settings, repos, top_pick_repos, i, summary, result>>
    /\ UNCHANGED <<crawler_vars, main_vars>>
    /\ UNCHANGED notification

\* lines 241-258: the part of the body behind the primary tier
TryFallback(g, A) ==
    IF FallbackUsable(settings)
    THEN \E a \in A : AttemptEnds(CallAnthropic(a), g, a, "fallback")
    ELSE AttemptEnds(Raise(NoTierError(settings)), g, NotInvoked, "none")

\* the body with the secondary invoked whatever the primary did
CallBothTiers(G, A) ==
    /\ pc = "call_llm"
    /\ \E g \in G : TryFallback(g, A)

\* lines 229-258: one run of the body of _call_llm_with_fallback, the primary
\* answering some g of G and the secondary, when it is reached, some a of A
CallLlmWithFallback(G, A) ==
    /\ pc = "call_llm"
    /\ IF settings.primary_client
       THEN \E g \in G :
              IF Returned(CallGemini(g))
              THEN AttemptEnds(CallGemini(g), g, NotInvoked, "primary")
              ELSE TryFallback(g, A)
       ELSE TryFallback(NotInvoked, A)

\* CallLlmWithFallback with the provider invocations of the whole
\* summarize_all counted
CallLlmWatched(G, A) ==
    /\ CallLlmWithFallback(G, A)
    /\ observed' = [observed EXCEPT !.primary = @ + calls'.primary - calls.primary,
                                    !.fallback = @ + calls'.fallback - calls.fallback]

\* line 225: the wait between two attempts
Backoff ==
    /\ pc = "backoff"
    /\ calls' = [calls EXCEPT !.backoffs = @ + 1]
    /\ pc' = "call_llm"
    /\ UNCHANGED <<settings, repos, top_pick_repos, i, attempt_number, outcome,
                   summary, result>>
    /\ UNCHANGED <<crawler_vars, main_vars>>
    /\ UNCHANGED <<observed, notification>>

\* lines 267-285: the fields are copied, or an except clause fills the summary,
\* and summarize_repo returns; an uncaught exception leaves summarize_all too
SummarizeRepoEnd ==
    /\ pc = "extract"
    /\ LET r == FinishSummary(summary, outcome)
       IN  IF Returned(r)
           THEN /\ summary' = r.returns
                /\ pc' = "returned"
                /\ UNCHANGED outcome
           ELSE /\ outcome' = r
                /\ pc' = "raised"
                /\ UNCHANGED summary
    /\ UNCHANGED <<settings, repos, top_pick_repos, i, attempt_number, result, calls>>
    /\ UNCHANGED <<crawler_vars, main_vars>>
    /\ UNCHANGED <<observed, notification>>

\* the loop leaving a failed summary out of the outcome
PlaceUnlessFailed(res, s) ==
    IF s.error # None THEN res
    ELSE IF s.is_top_pick
    THEN [res EXCEPT !.top_picks = Append(@, s)]
    ELSE [res EXCEPT !.quick_looks = Append(@, s)]

\* lines 311-314 with the list chosen by what the provider scored
PlaceByScore(res, s) ==
    IF s.error = None /\ s.score > DefaultScore
    THEN [res EXCEPT !.top_picks = Append(@, s)]
    ELSE [res EXCEPT !.quick_looks = Append(@, s)]

\* lines 311-314
Place(res, s) ==
    IF s.is_top_pick
    THEN [res EXCEPT !.top_picks = Append(@, s)]
    ELSE [res EXCEPT !.quick_looks = Append(@, s)]

\* lines 309-314 and the loop's step
AppendSummary ==
    /\ pc = "returned"
    /\ LET s == [summary EXCEPT !.is_top_pick = repos[i].name \in top_pick_repos]
       IN  /\ summary' = s
           /\ result' = Place(result, s)
    /\ i' = i + 1
    /\ pc' = IF i < Len(repos) THEN "summarize_repo" ELSE "sort"
    /\ UNCHANGED <<settings, repos, top_pick_repos, attempt_number, outcome, calls>>
    /\ UNCHANGED <<crawler_vars, main_vars>>
    /\ UNCHANGED <<observed, notification>>

\* lines 316-319
SortTopPicks ==
    /\ pc = "sort"
    /\ result' = [result EXCEPT !.top_picks = SortTopPicksByScore(@)]
    /\ pc' = "done"
    /\ UNCHANGED <<settings, repos, top_pick_repos, i, attempt_number, outcome,
                   summary, calls>>
    /\ UNCHANGED <<crawler_vars, main_vars>>
    /\ UNCHANGED <<observed, notification>>

\* lines 176-185, 231: _construct_user_prompt(repo) puts
\* _truncate_readme(repo.readme_content) into the prompt of repos[i]
ConstructUserPrompt ==
    /\ pc = "construct_user_prompt"
    /\ outcome' = Return(TruncateReadme(repos[i].readme_content))
    /\ pc' = "prompt"
    /\ UNCHANGED <<attempt_number, summarizer_vars, crawler_vars, main_vars, observed, notification>>

(* crawl *)

\* line 258
CrawlBegin ==
    /\ pc = "crawl"
    /\ crawler_result' = CrawlerResult
    /\ attempt_number' = 0
    /\ outcome' = NoOutcome
    /\ readme_i' = 0
    /\ net' = NoNet
    /\ pc' = "fetch_trending"
    /\ UNCHANGED <<max_repos, summarizer_vars, main_vars>>
    /\ UNCHANGED <<observed, notification>>

\* line 286: the README loop runs over a non-empty list
AfterAcquisition(acquired) == IF acquired # <<>> THEN "fetch_readme" ELSE "crawl_returned"

\* lines 261-275: one attempt of _fetch_trending_page; a page that is handed
\* back is parsed, and records make the result while none raise ValueError;
\* an exception that leaves the retried call enters the except clause
ScrapeTrending(Responses) ==
    /\ pc = "fetch_trending"
    /\ \E response \in Responses :
         LET n == attempt_number + 1
             a == AfterFetch(FetchTrendingPage(response), n, TrendingAttempts)
             parsed == ParseTrendingHtml(a.outcome.returns, max_repos)
             sent == [net EXCEPT !.trending_calls = @ + 1]
         IN  IF a.again
             THEN /\ attempt_number' = n
                  /\ outcome' = a.outcome
                  /\ net' = sent
                  /\ UNCHANGED <<pc, crawler_result, readme_i>>
             ELSE IF Raised(a.outcome)
             THEN /\ attempt_number' = 0
                  /\ outcome' = a.outcome
                  /\ net' = [sent EXCEPT !.primary = "raised"]
                  /\ pc' = "search_api"
                  /\ UNCHANGED <<crawler_result, readme_i>>
             ELSE IF ParsedAny(parsed)
             THEN /\ attempt_number' = 0
                  /\ outcome' = NoOutcome
                  /\ crawler_result' = [repos |-> parsed, source |-> "trending"]
                  /\ net' = [sent EXCEPT !.primary = "parsed", !.parsed = Len(parsed),
                                         !.acquired = parsed]
                  /\ readme_i' = 1
                  /\ pc' = AfterAcquisition(parsed)
             ELSE /\ attempt_number' = 0
                  /\ outcome' = Raise(Exc("ValueError"))
                  /\ net' = [sent EXCEPT !.primary = "parsed", !.parsed = Len(parsed)]
                  /\ pc' = "search_api"
                  /\ UNCHANGED <<crawler_result, readme_i>>
    /\ UNCHANGED <<max_repos, summarizer_vars, main_vars>>
    /\ UNCHANGED <<observed, notification>>

\* lines 277-283: one attempt of _fetch_via_search_api; a list that is handed
\* back makes the result, an exception that leaves the retried call ends crawl
QuerySearchApi(Responses) ==
    /\ pc = "search_api"
    /\ \E response \in Responses :
         LET n == attempt_number + 1
             a == AfterFetch(FetchViaSearchApi(response), n, SearchAttempts)
             sent == [net EXCEPT !.search_calls = @ + 1]
             ended == IF Raised(a.outcome) THEN OnSearchFailure(a.outcome.raises)
                      ELSE a.outcome
         IN  IF a.again
             THEN /\ attempt_number' = n
                  /\ outcome' = a.outcome
                  /\ net' = sent
                  /\ UNCHANGED <<pc, crawler_result, readme_i>>
             ELSE IF Raised(ended)
             THEN /\ attempt_number' = 0
                  /\ outcome' = ended
                  /\ net' = [sent EXCEPT !.secondary = "raised"]
                  /\ pc' = "crawl_raised"
                  /\ UNCHANGED <<crawler_result, readme_i>>
             ELSE /\ attempt_number' = 0
                  /\ outcome' = NoOutcome
                  /\ crawler_result' = [repos |-> ended.returns, source |-> "search_api"]
                  /\ net' = [sent EXCEPT
                               !.secondary = IF Raised(a.outcome) THEN "raised" ELSE "returned",
                               !.acquired = ended.returns]
                  /\ readme_i' = 1
                  /\ pc' = AfterAcquisition(ended.returns)
    /\ UNCHANGED <<max_repos, summarizer_vars, main_vars>>
    /\ UNCHANGED <<observed, notification>>

\* lines 286-292: repo.readme_content = self._fetch_readme(repo) for the record
\* at readme_i; nothing around the call catches what it would raise
FetchReadmeOfRepo(Apis, Raws) ==
    /\ pc = "fetch_readme"
    /\ \E api \in Apis, raw \in Raws :
         LET r == FetchReadme(api, raw)
         IN  IF Raised(r)
             THEN /\ outcome' = r
                  /\ pc' = "crawl_raised"
                  /\ UNCHANGED <<crawler_result, readme_i, net>>
             ELSE /\ crawler_result' =
                       [crawler_result EXCEPT !.repos[readme_i].readme_content = r.returns]
                  /\ net' = [net EXCEPT !.readmes = Append(@, ReadmeOrigin(api, raw))]
                  /\ readme_i' = readme_i + 1
                  /\ pc' = IF readme_i < Len(crawler_result.repos)
                           THEN "fetch_readme" ELSE "crawl_returned"
                  /\ UNCHANGED outcome
    /\ UNCHANGED <<max_repos, attempt_number, summarizer_vars, main_vars>>
    /\ UNCHANGED notification

\* FetchReadmeOfRepo with the requests of the call written down
FetchReadmeWatched(Apis, Raws) ==
    \E api \in Apis, raw \in Raws :
        /\ FetchReadmeOfRepo({api}, {raw})
        /\ observed' = [observed EXCEPT !.requests = ReadmeRequests(api, raw)]

(* notify *)

\* lines 255-266: notify returns {} without notifiers or without summaries,
\* otherwise it enters the loop with the summaries of line 260
NotifyBegin ==
    /\ pc = "notify"
    /\ IF notification.notifiers = <<>> \/ SummariesToSend(result) = <<>>
       THEN /\ notification' = [notification EXCEPT !.results = NoResults]
            /\ pc' = "notified"
       ELSE /\ notification' = [notification EXCEPT !.summaries = SummariesToSend(result),
                                                    !.k = 1,
                                                    !.results = NoResults]
            /\ pc' = "send"
    /\ UNCHANGED <<attempt_number, outcome, summarizer_vars, crawler_vars, main_vars, observed>>

\* lines 267-272 and 81-87: one httpx.post of the notifier at k; when the
\* retried send has ended, its entry is written and the loop moves on
SendOnce(Responses) ==
    /\ pc = "send"
    /\ \E response \in Responses :
         LET n == attempt_number + 1
             name == notification.notifiers[notification.k]
             a == AfterSend(Send(response), n)
             recorded == Recorded(a.outcome)
         IN  /\ observed' = [observed EXCEPT !.requests =
                                Append(@, [to |-> name, summaries |-> notification.summaries,
                                           ok |-> Returned(Send(response))])]
             /\ outcome' = a.outcome
             /\ IF a.again
                THEN /\ attempt_number' = n
                     /\ UNCHANGED <<pc, notification>>
                ELSE /\ attempt_number' = 0
                     /\ notification' = [notification EXCEPT
                                           !.results = SetItem(@, name, recorded.ok),
                                           !.k = @ + 1]
                     /\ pc' = IF recorded.continue /\ notification.k < Len(notification.notifiers)
                              THEN "send" ELSE "notified"
    /\ UNCHANGED <<summarizer_vars, crawler_vars, main_vars>>

(* main *)

\* lines 59-62: step 1 calls crawl_trending
MainBegin ==
    /\ pc = "main"
    /\ steps' = Append(steps, "crawl")
    /\ pc' = "crawl"
    /\ UNCHANGED <<attempt_number, outcome, exit_status, summarizer_vars, crawler_vars>>
    /\ UNCHANGED <<observed, notification>>

\* line 70 never taking the exit
NoRepositoriesNever(rs) == FALSE

\* line 70: if not crawler_result.repos
NoRepositories(rs) == rs = <<>>

\* lines 62-77: crawl_trending raised or returned; an exception or an empty
\* list ends the process with status 1, otherwise step 2 calls summarize_repos
MainAfterCrawl ==
    /\ pc \in {"crawl_returned", "crawl_raised"}
    /\ IF pc = "crawl_raised" \/ NoRepositories(crawler_result.repos)
       THEN /\ exit_status' = Exit(1)
            /\ pc' = "exited"
            /\ UNCHANGED <<repos, steps>>
       ELSE /\ repos' = crawler_result.repos
            /\ steps' = Append(steps, "summarize")
            /\ pc' = "summarize_all"
            /\ UNCHANGED exit_status
    /\ UNCHANGED <<settings, top_pick_repos, i, summary, result, calls,
                   attempt_number, outcome, crawler_vars>>
    /\ UNCHANGED <<observed, notification>>

\* lines 77-89: summarize_repos raised or returned; an exception ends the
\* process with status 1, otherwise step 3 calls generate_report
MainAfterSummarize ==
    /\ pc \in {"done", "raised"}
    /\ IF pc = "raised"
       THEN /\ exit_status' = Exit(1)
            /\ pc' = "exited"
            /\ UNCHANGED steps
       ELSE /\ steps' = Append(steps, "report")
            /\ pc' = "generate_report"
            /\ UNCHANGED exit_status
    /\ UNCHANGED <<attempt_number, outcome, summarizer_vars, crawler_vars>>
    /\ UNCHANGED <<observed, notification>>

\* lines 86-98: generate_report returns or raises; either way step 4 calls
\* send_notifications
GenerateReport ==
    /\ pc = "generate_report"
    /\ \E raised \in BOOLEAN :
         /\ outcome' = IF raised THEN Raise(Exc("Exception")) ELSE NoOutcome
         /\ steps' = Append(steps, "notify")
         /\ pc' = "send_notifications"
    /\ UNCHANGED <<attempt_number, exit_status, summarizer_vars, crawler_vars>>
    /\ UNCHANGED <<observed, notification>>

\* lines 95-111: send_notifications returns or raises; either way main returns
\* and the process ends with status 0
SendNotifications ==
    /\ pc = "send_notifications"
    /\ \E raised \in BOOLEAN :
         /\ outcome' = IF raised THEN Raise(Exc("Exception")) ELSE NoOutcome
         /\ exit_status' = Exit(0)
         /\ pc' = "exited"
    /\ UNCHANGED <<attempt_number, steps, summarizer_vars, crawler_vars>>
    /\ UNCHANGED <<observed, notification>>

\* summarize_all over lists of up to MaxRepos repositories, few responses
Init == InitWith(UNION {RepoLists(n, {"a description"}) : n \in 0..MaxRepos}, AllSettings)

Next ==
    \/ SummarizeAllBegin
    \/ SummarizeRepoBegin
    \/ CallLlmWithFallback(FewGemini, FewAnthropic) /\ UNCHANGED observed
    \/ Backoff
    \/ SummarizeRepoEnd
    \/ AppendSummary
    \/ SortTopPicks

Spec == Init /\ [][Next]_vars

\* summarize_all over one repository, every modelled response
InitRepo == InitWith(RepoLists(1, {"", "a description"}), AllSettings)

NextRepo ==
    \/ SummarizeAllBegin
    \/ SummarizeRepoBegin
    \/ CallLlmWithFallback(RichGemini, RichAnthropic) /\ UNCHANGED observed
    \/ Backoff
    \/ SummarizeRepoEnd
    \/ AppendSummary
    \/ SortTopPicks

SpecRepo == InitRepo /\ [][NextRepo]_vars

PrimaryOnly(count) ==
    [primary_client |-> TRUE, fallback_client |-> FALSE, fallback_model |-> None,
     top_pick_count |-> count]

\* summarize_all over lists of up to MaxSelected repositories whose names are
\* unique (Repository.name is the identity of a repository within a run), with
\* stars_today from GrowthValues, the primary provider alone and answering
\* every call (no attempt is repeated)
GrowthValues == {0, 10, 50}

SelectLists(n) ==
    {[k \in 1..n |-> [id |-> k, name |-> "owner/r" \o ToString(k),
                      description |-> "a description", stars_today |-> growth[k]]] :
        growth \in [1..n -> GrowthValues]}

InitSelect ==
    InitWith(UNION {SelectLists(n) : n \in 0..MaxSelected},
             {PrimaryOnly(count) : count \in 1..MaxTopPickCount})

\* the answers of the primary provider that its call returns
AnsweredGemini == {g \in FewGemini : Returned(CallGemini(g))}

NextSelect ==
    \/ SummarizeAllBegin
    \/ SummarizeRepoBegin
    \/ CallLlmWithFallback(AnsweredGemini, FewAnthropic) /\ UNCHANGED observed
    \/ SummarizeRepoEnd
    \/ AppendSummary
    \/ SortTopPicks

SpecSelect == InitSelect /\ [][NextSelect]_vars

\* crawl alone, every modelled answer of the three endpoints
InitCrawlWith(limits, settingsSet, start) ==
    /\ settings \in settingsSet
    /\ repos = <<>>
    /\ top_pick_repos = {}
    /\ i = 0
    /\ pc = start
    /\ attempt_number = 0
    /\ outcome = NoOutcome
    /\ summary = NoSummary
    /\ result = SummaryResult
    /\ calls = NoCalls
    /\ max_repos \in limits
    /\ crawler_result = CrawlerResult
    /\ readme_i = 0
    /\ net = NoNet
    /\ exit_status = Running
    /\ steps = <<>>
    /\ observed = NoObservation
    /\ notification = NoNotification

InitCrawl == InitCrawlWith(1..MaxMaxRepos, {PrimaryOnly(1)}, "crawl")

NextCrawl ==
    \/ CrawlBegin
    \/ ScrapeTrending(TrendingResponses(MaxArticles, Articles))
    \/ QuerySearchApi(SearchResponses(MaxItems, SearchItems))
    \/ FetchReadmeOfRepo(ReadmeResponses, RawResponses) /\ UNCHANGED observed

SpecCrawl == InitCrawl /\ [][NextCrawl]_vars

\* main from its first step to the end of the process, over a few answers of
\* each endpoint: pages of no, one and two repositories, a search that gives
\* up, finds nothing or finds one repository, a README found or not
ArticleA ==
    Article(Link(<<"/", "owner", "/", "a">>), [text |-> "a description"],
            [chars |-> <<"1", ",", "2">>], StarsToday50)
ArticleB == Article(Link(<<"/", "owner", "/", "b">>), Absent, Absent, StarsToday1200)

MainTrending ==
    {HttpError("TimeoutException"), Http(200, <<>>), Http(200, <<ArticleA>>),
     Http(200, <<ArticleA, ArticleB>>)}

MainSearch ==
    {HttpError("TimeoutException"), Http(200, JObj(EmptyDict)),
     Http(200, JObj("items" :> JList(<<SearchItem(JStr(<<"owner", "/", "a">>), JStr("url"),
                                                  JStr("a description"), JInt(7))>>)))}

MainReadme == {Http(404, NotJson), Http(200, JObj("content" :> B64("the readme")))}

MainRaw == {[k \in 1..Len(ReadmeNames) |-> Http(404, [text |-> "404: Not Found"])]}

InitMain == InitCrawlWith({MaxMaxRepos}, {PrimaryOnly(1)}, "main")

NextMain ==
    \/ MainBegin
    \/ CrawlBegin
    \/ ScrapeTrending(MainTrending)
    \/ QuerySearchApi(MainSearch)
    \/ FetchReadmeOfRepo(MainReadme, MainRaw) /\ UNCHANGED observed
    \/ MainAfterCrawl
    \/ SummarizeAllBegin
    \/ SummarizeRepoBegin
    \/ CallLlmWithFallback(FewGemini, FewAnthropic) /\ UNCHANGED observed
    \/ Backoff
    \/ SummarizeRepoEnd
    \/ AppendSummary
    \/ SortTopPicks
    \/ MainAfterSummarize
    \/ GenerateReport
    \/ SendNotifications

SpecMain == InitMain /\ [][NextMain]_vars

\* _truncate_readme alone, on the README of one repository
InitReadme ==
    /\ settings = PrimaryOnly(1)
    /\ repos \in {<<[id |-> 1, name |-> "owner/a", description |-> "a description",
                    stars_today |-> 0, readme_content |-> t]>> : t \in Readmes}
    /\ top_pick_repos = {}
    /\ i = 1
    /\ pc = "construct_user_prompt"
    /\ attempt_number = 0
    /\ outcome = NoOutcome
    /\ summary = NoSummary
    /\ result = SummaryResult
    /\ calls = NoCalls
    /\ max_repos = DefaultMaxRepos
    /\ crawler_result = CrawlerResult
    /\ readme_i = 0
    /\ net = NoNet
    /\ exit_status = Running
    /\ steps = <<>>
    /\ observed = NoObservation
    /\ notification = NoNotification

NextReadme == ConstructUserPrompt

SpecReadme == InitReadme /\ [][NextReadme]_vars

\* crawl with the requests of each _fetch_readme watched
InitProbes == InitCrawlWith({MaxMaxRepos}, {PrimaryOnly(1)}, "crawl")

NextProbes ==
    \/ CrawlBegin
    \/ ScrapeTrending(MainTrending)
    \/ QuerySearchApi(MainSearch)
    \/ FetchReadmeWatched(ReadmeResponses, AllRawResponses)

SpecProbes == InitProbes /\ [][NextProbes]_vars

\* the whole run with the provider calls counted, every step that is enabled
\* eventually taken: the program is one sequential thread, each network call
\* returns or raises and each backoff wait ends
BothTiers(count) ==
    [primary_client |-> TRUE, fallback_client |-> TRUE, fallback_model |-> "fallback-model",
     top_pick_count |-> count]

InitRun == InitCrawlWith({MaxMaxRepos}, {PrimaryOnly(1), BothTiers(1)}, "main")

NextRun ==
    \/ MainBegin
    \/ CrawlBegin
    \/ ScrapeTrending(MainTrending)
    \/ QuerySearchApi(MainSearch)
    \/ FetchReadmeOfRepo(MainReadme, MainRaw) /\ UNCHANGED observed
    \/ MainAfterCrawl
    \/ SummarizeAllBegin
    \/ SummarizeRepoBegin
    \/ CallLlmWatched(FewGemini, FewAnthropic)
    \/ Backoff
    \/ SummarizeRepoEnd
    \/ AppendSummary
    \/ SortTopPicks
    \/ MainAfterSummarize
    \/ GenerateReport
    \/ SendNotifications

SpecRun == InitRun /\ [][NextRun]_vars /\ WF_vars(NextRun)

\* notify alone: every configuration of the platforms, outcomes of
\* summarize_all with up to MaxTopPickCount top picks and MaxSelected quick
\* looks, every platform answering each post with an error, a failure status
\* or success
WebhookSettings ==
    [feishu_webhook_url : BOOLEAN, dingtalk_webhook_url : BOOLEAN,
     slack_webhook_url : BOOLEAN, telegram_bot_token : BOOLEAN,
     telegram_chat_id : BOOLEAN]

SummaryOf(k, top) ==
    [ProjectSummary([id |-> k, name |-> "owner/r" \o ToString(k),
                     description |-> "a description", stars_today |-> 0])
        EXCEPT !.is_top_pick = top]

SummaryResults ==
    {[top_picks |-> [k \in 1..t |-> SummaryOf(k, TRUE)],
      quick_looks |-> [k \in 1..q |-> SummaryOf(t + k, FALSE)]] :
        t \in 0..MaxTopPickCount, q \in 0..MaxSelected}

PostResponses == {HttpError("ConnectError"), Http(500, <<>>), Http(200, <<>>)}

InitNotify ==
    /\ settings = PrimaryOnly(1)
    /\ repos = <<>>
    /\ top_pick_repos = {}
    /\ i = 0
    /\ pc = "notify"
    /\ attempt_number = 0
    /\ outcome = NoOutcome
    /\ summary = NoSummary
    /\ result \in SummaryResults
    /\ calls = NoCalls
    /\ max_repos = DefaultMaxRepos
    /\ crawler_result = CrawlerResult
    /\ readme_i = 0
    /\ net = NoNet
    /\ exit_status = Running
    /\ steps = <<>>
    /\ observed = NoObservation
    /\ notification \in {[NoNotification EXCEPT !.notifiers = InitNotifiers(cfg)] :
                            cfg \in WebhookSettings}

NextNotify ==
    \/ NotifyBegin
    \/ SendOnce(PostResponses)

SpecNotify == InitNotify /\ [][NextNotify]_vars





-----------------------------------------------------------------------------
(* Properties of summarize_repo and summarize_all *)

SummaryFields ==
    {"repo", "one_liner_cn", "core_features", "use_case", "score", "score_reason",
     "is_top_pick", "error"}

\* summarize_repo has just returned summary for repos[i]
SummarizeRepoReturned == pc = "returned"

\* the retried call ended by returning a JSON object
GotObject == Returned(outcome) /\ IsObj(outcome.returns)

\* C1: summarize_repo never raises outward: whatever the two tiers do (absent,
\* raising on every attempt, malformed JSON, a JSON value that is no object, a
\* non-numeric or null score), it returns a ProjectSummary whose repo is the
\* repository it was given.
C1_SummarizeRepoNeverRaises ==
    /\ pc # "raised"
    /\ SummarizeRepoReturned =>
          /\ DOMAIN summary = SummaryFields
          /\ summary.repo = repos[i]

\* C1 witness: the call returned although the provider's JSON was no object
C1_Witness ==
    /\ SummarizeRepoReturned
    /\ Returned(outcome)
    /\ ~IsObj(outcome.returns)
    /\ summary.repo = repos[i]
    /\ summary.error # None

\* C2: every summary summarize_repo returns has its score in 1..5; where the
\* fields were copied from a provider's object, an integer score s became
\* min(5, max(1, s)) and an absent score became 3.
C2_ScoreInRange ==
    SummarizeRepoReturned =>
        /\ summary.score \in 1..5
        /\ (GotObject /\ summary.error = None) =>
              LET d == outcome.returns.obj
              IN  /\ "score" \notin DOMAIN d => summary.score = 3
                  /\ ("score" \in DOMAIN d /\ IsInt(d.score)) =>
                        summary.score = (IF d.score.int > 5 THEN 5
                                         ELSE IF d.score.int < 1 THEN 1
                                         ELSE d.score.int)

\* C2 witness: a provider's score of 0 was returned as 1
C2_Witness ==
    /\ SummarizeRepoReturned
    /\ GotObject
    /\ "score" \in DOMAIN outcome.returns.obj
    /\ outcome.returns.obj.score = JInt(0)
    /\ summary.error = None
    /\ summary.score = 1

AllSummaries == result.top_picks \o result.quick_looks

\* how many summaries of the outcome refer to the repository at position k
SummariesOf(k) ==
    Cardinality({j \in 1..Len(AllSummaries) : AllSummaries[j].repo.id = k})

\* C3: summarize_all over n repositories returns n summaries, one for each
\* input position, in exactly one of top_picks and quick_looks, whatever
\* succeeded or failed; a failure on one repository does not stop the loop, so
\* on reaching repository i the i-1 earlier ones are all in the outcome.
C3_CompleteOutcome ==
    /\ pc # "raised"
    /\ pc \in {"summarize_repo", "sort"} =>
          /\ Len(AllSummaries) = i - 1
          /\ \A k \in 1..(i - 1) : SummariesOf(k) = 1
    /\ pc = "done" =>
          /\ Len(result.top_picks) + Len(result.quick_looks) = Len(repos)
          /\ \A k \in 1..Len(repos) : SummariesOf(k) = 1

\* C3 witness: a finished run over several repositories, every summary degraded,
\* both lists in use
C3_Witness ==
    /\ pc = "done"
    /\ Len(repos) >= 2
    /\ result.top_picks # <<>>
    /\ result.quick_looks # <<>>
    /\ \A j \in 1..Len(AllSummaries) : AllSummaries[j].error # None

RequiredKeys == {"one_liner_cn", "core_features", "use_case", "score", "score_reason"}

\* a JSON object of the required response shape
WellFormed(v) ==
    /\ IsObj(v)
    /\ DOMAIN v.obj = RequiredKeys
    /\ IsStr(v.obj.one_liner_cn)
    /\ IsList(v.obj.core_features)
    /\ IsStr(v.obj.use_case)
    /\ IsInt(v.obj.score)
    /\ IsStr(v.obj.score_reason)

\* the wrappings _clean_json_response is written for: none, a trailing newline,
\* a json code fence, a bare code fence
FencedOrPlain ==
    {<<<<>>, <<>>>>,
     <<<<>>, <<NL>>>>,
     <<<<Fence, Tok("json"), NL>>, <<NL, Fence>>>>,
     <<<<Fence, NL>>, <<NL, Fence>>>>}

\* the JSON document inside a text that holds one
DocOf(text) == text[CHOOSE k \in 1..Len(text) : IsDoc(text[k])].doc

\* the secondary's answer is well-formed: a well-formed object, plain or fenced
WorkingAnthropic(a) ==
    /\ "content" \in DOMAIN a
    /\ a.content # <<>>
    /\ \E w \in FencedOrPlain :
          /\ Len(a.content[1]) = Len(w[1]) + 1 + Len(w[2])
          /\ a.content[1] = w[1] \o <<a.content[1][Len(w[1]) + 1]>> \o w[2]
          /\ IsDoc(a.content[1][Len(w[1]) + 1])
          /\ WellFormed(a.content[1][Len(w[1]) + 1].doc)

\* s carries the fields of the well-formed object v
BuiltFrom(s, v) ==
    LET l == v.obj.core_features.list
        n == v.obj.score.int
    IN  /\ s.one_liner_cn = v.obj.one_liner_cn.str
        /\ s.core_features = (IF Len(l) > 3 THEN <<l[1], l[2], l[3]>> ELSE l)
        /\ s.use_case = v.obj.use_case.str
        /\ s.score = (IF n > 5 THEN 5 ELSE IF n < 1 THEN 1 ELSE n)
        /\ s.score_reason = v.obj.score_reason.str

\* in the last attempt the primary was invoked and failed, and the secondary
\* answered with a well-formed response
PrimaryFailedSecondaryWorking ==
    /\ settings.primary_client
    /\ calls.g # NotInvoked
    /\ Raised(CallGemini(calls.g))
    /\ WorkingAnthropic(calls.a)

\* C4: when the primary tier fails and the secondary tier answers with a
\* well-formed response, summarize_repo returns a summary built from the
\* secondary's payload, with error unset: not a placeholder.
C4_SecondaryPayloadUsed ==
    (SummarizeRepoReturned /\ PrimaryFailedSecondaryWorking) =>
        /\ summary.error = None
        /\ BuiltFrom(summary, DocOf(calls.a.content[1]))

\* C4 witness: the primary failed, the secondary's fenced answer became the summary
C4_Witness ==
    /\ SummarizeRepoReturned
    /\ PrimaryFailedSecondaryWorking
    /\ Head(calls.a.content[1]) = Fence
    /\ summary.error = None
    /\ summary.one_liner_cn = "headline"

\* every attempt of the retried call invoked both tiers and both failed
BothTiersFailedEveryAttempt ==
    /\ calls.body_runs = MaxAttempts
    /\ calls.primary = calls.body_runs
    /\ calls.fallback = calls.body_runs
    /\ Raised(outcome)

\* C5: when both tiers fail on every attempt, summarize_repo returns a
\* placeholder summary: error set, core_features the one-element placeholder
\* list, the headline the repository's description or a placeholder.
C5_BothFailPlaceholder ==
    (SummarizeRepoReturned /\ BothTiersFailedEveryAttempt) =>
        /\ summary.error # None
        /\ summary.core_features # <<>>
        /\ summary.core_features \in {ApiFailedFeatures, ParseFailedFeatures}
        /\ summary.one_liner_cn \in
              (IF repos[i].description # ""
               THEN {repos[i].description}
               ELSE {ApiFailedHeadline, ParseFailedHeadline})

\* C5 witness: both tiers failed three times for a repository without description
C5_Witness ==
    /\ SummarizeRepoReturned
    /\ BothTiersFailedEveryAttempt
    /\ repos[i].description = ""
    /\ summary.error # None
    /\ Len(summary.core_features) = 1

\* C6 (as claimed): with neither provider configured the tiered call fails
\* with the configuration error and is not retried: the body of
\* _call_llm_with_fallback runs once for the repository and there is no
\* backoff wait.
C6_NoClientsNotRetried ==
    (~settings.primary_client /\ ~settings.fallback_client) =>
        /\ calls.body_runs <= 1
        /\ calls.backoffs = 0
        /\ SummarizeRepoReturned => calls.body_runs = 1

\* C7: the retry counts runs of the whole tiered call: within one
\* summarize_repo the body runs at most 3 times, so the primary provider is
\* invoked at most 3 times and the secondary at most 3 times, each at most once
\* per run, and no run follows one that returned a payload.
C7_AtMostThreeAttempts ==
    /\ attempt_number <= 3
    /\ calls.body_runs = attempt_number
    /\ calls.primary <= calls.body_runs
    /\ calls.fallback <= calls.body_runs
    /\ calls.primary <= 3
    /\ calls.fallback <= 3
    /\ pc \in {"call_llm", "backoff"} => ~Returned(outcome)

\* C7 witness: three runs, each invoking both providers, then summarize_repo returned
C7_Witness ==
    /\ SummarizeRepoReturned
    /\ calls.body_runs = 3
    /\ calls.primary = 3
    /\ calls.fallback = 3
    /\ calls.backoffs = 2

\* the summary is the one the JSON-parse clause (lines 273-277) produces
ParseErrorSummary(s) ==
    /\ s.error = "JSON parse error: " \o ExcStr(Exc("JSONDecodeError"))
    /\ s.core_features = ParseFailedFeatures
    /\ s.one_liner_cn = StrOr(s.repo.description, ParseFailedHeadline)

\* the tiered call ended, after its retries, on a response that json.loads rejected
EndedOnMalformedJson ==
    /\ Raised(outcome)
    /\ \/ outcome.raises.cls = "JSONDecodeError"
       \/ outcome.raises.cls = "RetryError" /\ outcome.raises.cause = "JSONDecodeError"

\* C8 (as claimed): when the tiered call ends on a malformed-JSON response,
\* summarize_repo takes the JSON-parse branch (error marked as a JSON parse
\* error, the parse-failure placeholders), not the transport/API-failure branch.
C8_MalformedJsonTakesParseBranch ==
    (SummarizeRepoReturned /\ EndedOnMalformedJson) => ParseErrorSummary(summary)

\* C9 (as claimed): in a summary whose error is set no field is blank:
\* one_liner_cn, core_features, use_case and score_reason are all non-empty.
C9_DegradedFieldsNotBlank ==
    (SummarizeRepoReturned /\ summary.error # None) =>
        /\ summary.one_liner_cn # ""
        /\ summary.core_features # <<>>
        /\ summary.use_case # ""
        /\ summary.score_reason # ""

\* the provider's object is fine up to its score, a string that is no number
NonNumericScore ==
    /\ GotObject
    /\ IsList(Get(outcome.returns.obj, "core_features", JList(<<>>)))
    /\ "score" \in DOMAIN outcome.returns.obj
    /\ IsChars(outcome.returns.obj.score)
    /\ \E k \in 1..Len(outcome.returns.obj.score.chars) :
          outcome.returns.obj.score.chars[k] \notin DOMAIN DigitVal \cup {" ", "+", "-"}

\* C10 (as claimed): a response whose score is non-numeric takes the
\* parse-error path: error set, categorized as a parse error, the
\* parse-failure placeholder feature list.
C10_NonNumericScoreIsParseError ==
    (SummarizeRepoReturned /\ NonNumericScore) =>
        /\ summary.error # None
        /\ summary.core_features = ParseFailedFeatures

-----------------------------------------------------------------------------
(* Properties of crawl *)

CrawlReturned == pc = "crawl_returned"
CrawlRaised == pc = "crawl_raised"

\* the primary path failed: the fetch raised, or parsing yielded no record
PrimaryFailed ==
    \/ net.primary = "raised"
    \/ net.primary = "parsed" /\ net.parsed = 0

\* C11: a result crawl returns holds at most max_repos records, on either path
C11_AtMostMaxRepos ==
    CrawlReturned => Len(crawler_result.repos) <= max_repos

\* name.split("/")
RECURSIVE SplitOnSlash(_)
SplitOnSlash(name) ==
    IF "/" \notin Range(name) THEN <<name>>
    ELSE LET p == CHOOSE k \in 1..Len(name) :
                      name[k] = "/" /\ \A m \in 1..(k - 1) : name[m] # "/"
         IN  <<SubSeq(name, 1, p - 1)>> \o SplitOnSlash(SubSeq(name, p + 1, Len(name)))

OwnerSlashRepo(name) ==
    /\ Len(SplitOnSlash(name)) = 2
    /\ SplitOnSlash(name)[1] # <<>>
    /\ SplitOnSlash(name)[2] # <<>>

\* C12: every record of a returned result has a name of exactly two non-empty
\* segments around one slash
C12_NamesAreOwnerSlashRepo ==
    CrawlReturned =>
        \A k \in 1..Len(crawler_result.repos) : OwnerSlashRepo(crawler_result.repos[k].name)

\* C13: every record of a result tagged search_api has stars_today = 0
C13_SearchApiHasNoGrowth ==
    crawler_result.source = "search_api" =>
        \A k \in 1..Len(crawler_result.repos) : crawler_result.repos[k].stars_today = 0

\* a returned search result with a record that carries a star count
C13_Witness ==
    /\ CrawlReturned
    /\ crawler_result.source = "search_api"
    /\ \E k \in 1..Len(crawler_result.repos) : crawler_result.repos[k].stars > 0

\* C14: crawl raises exactly when the primary path failed and the search raised
\* too, and returns a result in every other case
C14_FailsIffBothPathsFail ==
    /\ CrawlRaised => PrimaryFailed /\ net.secondary = "raised"
    /\ CrawlReturned => ~(PrimaryFailed /\ net.secondary = "raised")
    /\ (PrimaryFailed /\ net.secondary = "raised") => CrawlRaised
    /\ CrawlRaised => outcome = Raise([cls |-> "RuntimeError", cause |-> outcome.raises.cause])

\* crawl raised after a page without records and a search that gave up
C14_Witness ==
    /\ CrawlRaised
    /\ net.primary = "parsed"
    /\ net.parsed = 0
    /\ net.search_calls = SearchAttempts

\* Repository objects as they were before the README loop
Unenriched(rs) == [k \in 1..Len(rs) |-> [rs[k] EXCEPT !.readme_content = ""]]

\* C15: the search API is queried exactly when the primary path failed; records
\* from the page make a result tagged trending without any search request,
\* and any other returned result is the search's list, tagged search_api
C15_SecondaryOnlyAfterPrimaryFailed ==
    /\ net.search_calls > 0 => PrimaryFailed
    /\ (pc \in {"fetch_readme", "crawl_returned", "crawl_raised"} /\ PrimaryFailed)
           => net.search_calls > 0
    /\ (net.primary = "parsed" /\ net.parsed > 0) =>
           /\ net.search_calls = 0
           /\ net.secondary = "not queried"
           /\ crawler_result.source = "trending"
           /\ Len(crawler_result.repos) = net.parsed
           /\ Unenriched(crawler_result.repos) = net.acquired
    /\ (CrawlReturned /\ ~(net.primary = "parsed" /\ net.parsed > 0)) =>
           /\ net.secondary = "returned"
           /\ crawler_result.source = "search_api"
           /\ Unenriched(crawler_result.repos) = net.acquired

\* the search's records returned after a page without records
C15_Witness ==
    /\ CrawlReturned
    /\ net.primary = "parsed"
    /\ net.parsed = 0
    /\ crawler_result.source = "search_api"
    /\ crawler_result.repos # <<>>

\* the fetch of a record's README ended in failure: a request raised, the
\* content did not decode, or no request was answered with a README
ReadmeFailed(k) == net.readmes[k] \in {"raised", "not found"}

\* C16: a README fetch that fails leaves the record's excerpt empty and raises
\* nothing: crawl returns the acquired records in their order and number, and
\* the records behind the failed one are still enriched
C16_ReadmeBestEffort ==
    /\ \A k \in 1..Len(net.readmes) :
           ReadmeFailed(k) => crawler_result.repos[k].readme_content = ""
    /\ CrawlRaised => net.readmes = <<>> /\ net.secondary = "raised"
    /\ pc \in {"fetch_readme", "crawl_returned"} =>
           Unenriched(crawler_result.repos) = net.acquired
    /\ pc = "fetch_readme" => Len(net.readmes) = readme_i - 1
    /\ CrawlReturned => Len(net.readmes) = Len(crawler_result.repos)

\* a returned result whose first README fetch raised, whose second found no
\* README and whose third was answered
C16_Witness ==
    /\ CrawlReturned
    /\ Len(net.readmes) >= 3
    /\ net.readmes[1] = "raised"
    /\ net.readmes[2] = "not found"
    /\ crawler_result.repos[3].readme_content # ""

-----------------------------------------------------------------------------
(* Properties of the selection and the ordering in summarize_all *)

SummarizeAllReturned == pc = "done"

\* Repository.name identifies a repository within a run
DistinctNames ==
    \A k, m \in 1..Len(repos) : repos[k].name = repos[m].name => k = m

\* positions of the input list by the list of the outcome their summary is in
TopPickIds == {result.top_picks[k].repo.id : k \in 1..Len(result.top_picks)}
QuickLookIds == {result.quick_looks[k].repo.id : k \in 1..Len(result.quick_looks)}

\* positions of the growth pool
GrowthPool == {k \in 1..Len(repos) : repos[k].stars_today > 0}

\* C17: with a growth signal the top picks are the first top_pick_count
\* repositories of the growth pool by descending stars_today, and every other
\* repository, each one with stars_today = 0 included, is a quick look
C17_GrowthPoolSelection ==
    (SummarizeAllReturned /\ DistinctNames /\ GrowthPool # {}) =>
        /\ TopPickIds \subseteq GrowthPool
        /\ Cardinality(TopPickIds) = Min(settings.top_pick_count, Cardinality(GrowthPool))
        /\ \A t \in TopPickIds : \A u \in GrowthPool \ TopPickIds :
               repos[t].stars_today >= repos[u].stars_today
        /\ QuickLookIds = (1..Len(repos)) \ TopPickIds
        /\ \A k \in 1..Len(result.top_picks) : result.top_picks[k].is_top_pick
        /\ \A k \in 1..Len(result.quick_looks) : ~result.quick_looks[k].is_top_pick

\* stars_today = [0, 10, 0, 50] and top_pick_count = 2: the second and the
\* fourth repository are the top picks
C17_Witness ==
    /\ SummarizeAllReturned
    /\ settings.top_pick_count = 2
    /\ [k \in 1..Len(repos) |-> repos[k].stars_today] = <<0, 10, 0, 50>>
    /\ TopPickIds = {2, 4}
    /\ QuickLookIds = {1, 3}

\* C18: without a growth signal the top picks are the repositories at the
\* first min(top_pick_count, n) positions and all later ones are quick looks
C18_PositionalSelection ==
    (SummarizeAllReturned /\ DistinctNames /\ GrowthPool = {}) =>
        /\ TopPickIds = 1..Min(settings.top_pick_count, Len(repos))
        /\ QuickLookIds = (Min(settings.top_pick_count, Len(repos)) + 1)..Len(repos)
        /\ \A k \in 1..Len(result.top_picks) : result.top_picks[k].is_top_pick
        /\ \A k \in 1..Len(result.quick_looks) : ~result.quick_looks[k].is_top_pick

\* four repositories without growth and top_pick_count = 2
C18_Witness ==
    /\ SummarizeAllReturned
    /\ settings.top_pick_count = 2
    /\ [k \in 1..Len(repos) |-> repos[k].stars_today] = <<0, 0, 0, 0>>
    /\ TopPickIds = {1, 2}
    /\ QuickLookIds = {3, 4}

\* C19: top_picks of the returned outcome is ordered by score descending and,
\* among equal scores, by stars_today descending
C19_TopPicksOrdered ==
    SummarizeAllReturned =>
        \A k \in 1..(Len(result.top_picks) - 1) :
            LET a == result.top_picks[k]
                b == result.top_picks[k + 1]
            IN  \/ a.score > b.score
                \/ a.score = b.score /\ a.repo.stars_today >= b.repo.stars_today

\* two top picks of equal score that the sort put in the reverse of their
\* input order, the larger stars_today first
C19_Witness ==
    /\ SummarizeAllReturned
    /\ Len(result.top_picks) = 2
    /\ result.top_picks[1].score = result.top_picks[2].score
    /\ result.top_picks[1].repo.id > result.top_picks[2].repo.id
    /\ result.top_picks[1].repo.stars_today > result.top_picks[2].repo.stars_today

-----------------------------------------------------------------------------
(* Properties of main *)

\* acquisition failed: crawl exhausted both sources, or returned no repository
AcquisitionFailed ==
    \/ PrimaryFailed /\ net.secondary = "raised"
    \/ net.secondary = "returned" /\ crawler_result.repos = <<>>

\* C20: when crawl exhausts all sources or returns no repository, main exits
\* with a failure status and starts none of summarization, report generation
\* and notification; summarization starts only after crawl has returned a
\* non-empty list
C20_AcquisitionFailureIsFatal ==
    /\ AcquisitionFailed =>
           /\ steps = <<"crawl">>
           /\ repos = <<>>
           /\ calls = NoCalls
           /\ result = SummaryResult
           /\ pc \in {"crawl_raised", "crawl_returned", "exited"}
           /\ pc = "exited" => exit_status = Exit(1)
    /\ exit_status = Exit(0) => ~AcquisitionFailed
    /\ Len(steps) >= 2 =>
           /\ steps[2] = "summarize"
           /\ net.secondary # "raised"
           /\ crawler_result.repos # <<>>
           /\ repos = crawler_result.repos
    /\ pc \in {"summarize_all", "summarize_repo", "call_llm", "backoff", "extract",
               "returned", "raised", "sort", "done"} => Len(steps) >= 2

\* main has exited with status 1 after both sources were exhausted
C20_Witness ==
    /\ pc = "exited"
    /\ exit_status = Exit(1)
    /\ PrimaryFailed
    /\ net.secondary = "raised"
    /\ steps = <<"crawl">>

-----------------------------------------------------------------------------
(* Properties of _truncate_readme *)

PromptConstructed == pc = "prompt"
Readme == repos[1].readme_content
Truncated == outcome.returns

EndsWith(t, suffix) ==
    /\ Len(t) >= Len(suffix)
    /\ SubSeq(t, Len(t) - Len(suffix) + 1, Len(t)) = suffix

\* the marker as it reads once strip() has run: without its leading newline
\* when nothing but blanks precedes it
MarkerText == Tail(TruncationMarker)
Marked(t) == EndsWith(t, MarkerText)

\* C21 as stated, its first part: a README of more than 2000 characters
\* comes back with the truncation marker
C21_LongInputIsMarked ==
    PromptConstructed /\ ReadmeLen(Readme) > MAX_README_CHARS => Marked(Truncated)

\* C21: a README that is longer than 2000 characters once its markup is
\* stripped comes back as at most 2000 characters of content followed by the
\* truncation marker; one of at most 2000 characters once its markup is
\* stripped comes back without the marker, with nothing added to it (or as
\* the placeholder when it is blank)
C21_TruncationLength ==
    PromptConstructed =>
        IF ReadmeLen(StripMarkup(Readme)) > MAX_README_CHARS
        THEN /\ Marked(Truncated)
             /\ ReadmeLen(Truncated) <= MAX_README_CHARS + ReadmeLen(TruncationMarker)
        ELSE /\ ~Marked(Truncated)
             /\ \/ ReadmeLen(Truncated) <= ReadmeLen(StripMarkup(Readme))
                \/ Truncated = EmptyReadme

\* a README with markup that is still longer than 2000 characters without it
\* has been cut to exactly 2000 characters and the marker
C21_Witness ==
    /\ PromptConstructed
    /\ StripMarkup(Readme) # Readme
    /\ ReadmeLen(StripMarkup(Readme)) > MAX_README_CHARS
    /\ EndsWith(Truncated, TruncationMarker)
    /\ ReadmeLen(Truncated) = MAX_README_CHARS + ReadmeLen(TruncationMarker)

HasMarkdownImage(t) ==
    \E p \in 1..Len(t), q \in 1..Len(t), r \in 1..Len(t) :
        /\ p + 1 < q /\ q + 1 < r
        /\ t[p] = Ch("!") /\ t[p + 1] = Ch("[")
        /\ t[q] = Ch("]") /\ t[q + 1] = Ch("(")
        /\ t[r] = Ch(")")

HasImgTag(t) ==
    \E p \in 1..Len(t), q \in 1..Len(t) :
        /\ p + 3 < q
        /\ SubSeq(t, p, p + 3) = Chars(<<"<", "i", "m", "g">>)
        /\ t[q] = Ch(">")

\* C22: what _truncate_readme returns contains no markdown image ![alt](url)
\* and no <img ...> tag
C22_NoImageMarkup ==
    PromptConstructed => ~HasMarkdownImage(Truncated) /\ ~HasImgTag(Truncated)

-----------------------------------------------------------------------------
(* Properties of the tiers inside one attempt of _call_llm_with_fallback *)

\* an attempt has just ended; calls.g and calls.a are what the two providers
\* answered in it
AttemptEnded == pc \in {"extract", "backoff"} /\ calls.body_runs > 0
PrimaryInvoked == calls.g # NotInvoked
SecondaryInvoked == calls.a # NotInvoked
PrimaryRaised == PrimaryInvoked /\ Raised(CallGemini(calls.g))
PrimaryReturned == PrimaryInvoked /\ Returned(CallGemini(calls.g))

\* C23: in every attempt the primary is invoked exactly when a primary client
\* exists, and the secondary is invoked only when the primary is absent or
\* has raised in that attempt, never when the primary returned
C23_TierOrdering ==
    AttemptEnded =>
        /\ PrimaryInvoked <=> settings.primary_client
        /\ calls.primary = (IF settings.primary_client THEN calls.body_runs ELSE 0)
        /\ SecondaryInvoked => ~settings.primary_client \/ PrimaryRaised
        /\ PrimaryReturned => ~SecondaryInvoked /\ outcome = CallGemini(calls.g)

\* a second attempt in which the primary raised again and the secondary,
\* invoked after it, answered
C23_Witness ==
    /\ AttemptEnded
    /\ calls.body_runs = 2
    /\ calls.primary = 2
    /\ PrimaryRaised
    /\ SecondaryInvoked
    /\ calls.tier = "fallback"

\* C24: in every attempt in which the primary is absent or has raised and a
\* secondary client exists, the secondary is invoked and, when it answers, the
\* attempt returns its parsed payload
C24_SecondaryInvokedWhenClientExists ==
    (AttemptEnded /\ settings.fallback_client /\ (~PrimaryInvoked \/ PrimaryRaised)) =>
        /\ SecondaryInvoked
        /\ Returned(CallAnthropic(calls.a)) => outcome = CallAnthropic(calls.a)

-----------------------------------------------------------------------------
(* Properties of the fetches of crawl *)

\* the primary path has just given way to the secondary: outcome is what
\* ended it
PrimaryJustFailed == pc = "search_api" /\ net.search_calls = 0
\* a fetch of the page has failed and another one is about to be sent
TrendingRetryPending == pc = "fetch_trending" /\ attempt_number > 0
Transient(e) == IsInstance(e, "HTTPError") \/ IsInstance(e, "TimeoutException")
Exhausted(r) == Raised(r) /\ r.raises.cls = "RetryError"

-----------------------------------------------------------------------------
(* Properties of the requests of _fetch_readme *)

\* a _fetch_readme has just returned; observed.requests are its requests
ReadmeFetched == observed.requests # <<>>
Structured == observed.requests[1]
Probes == Tail(observed.requests)
Excerpt == crawler_result.repos[readme_i - 1].readme_content

Answered200(request) ==
    "error" \notin DOMAIN request.answer /\ request.answer.status = 200

\* the structured endpoint answered 200 with content that decodes
YieldedContent(request) ==
    /\ Answered200(request)
    /\ IsObj(request.answer.body)
    /\ "b64" \in DOMAIN Get(request.answer.body.obj, "content", JStr(""))

\* C26: the structured endpoint is requested first; when it yields content
\* no raw file is probed; when it does not (a status other than 200, no
\* content, or an error raised) the raw files are probed in the order
\* README.md, readme.md, README, readme.rst up to the first that answers
\* 200, whose text is the excerpt
C26_ReadmeSourceOrdering ==
    ReadmeFetched =>
        /\ Structured.to = "readme"
        /\ YieldedContent(Structured) => Probes = <<>>
        /\ ~YieldedContent(Structured) =>
             /\ Probes # <<>>
             /\ \A k \in 1..Len(Probes) :
                  /\ Probes[k].to = ReadmeNames[k]
                  /\ k < Len(Probes) => ~Answered200(Probes[k])
             /\ Answered200(Probes[Len(Probes)]) =>
                  Excerpt = Probes[Len(Probes)].answer.body.text

-----------------------------------------------------------------------------
(* Properties of top-pick membership *)

\* the positions whose name the selection of lines 298-303 chooses: a
\* function of the repository list and top_pick_count alone
SelectedPositions ==
    {k \in 1..Len(repos) : repos[k].name \in TopPickRepos(repos, settings.top_pick_count)}

Flagged(ss) == {ss[k].repo.id : k \in {n \in 1..Len(ss) : ss[n].is_top_pick}}

\* C27: whatever the providers did (answers, failures, scores), the
\* repositories with is_top_pick = true in the returned outcome are those the
\* selection chooses from the repository list and top_pick_count, so two runs
\* over the same list and count flag the same repositories
C27_MembershipBySelectionAlone ==
    SummarizeAllReturned =>
        /\ Flagged(result.top_picks) \cup Flagged(result.quick_looks) = SelectedPositions
        /\ TopPickIds = SelectedPositions
        /\ QuickLookIds = (1..Len(repos)) \ SelectedPositions

\* a run in which the provider failed for a top pick and scored a quick look
\* above the default
C27_Witness ==
    /\ SummarizeAllReturned
    /\ \E k \in 1..Len(result.top_picks) : result.top_picks[k].error # None
    /\ \E k \in 1..Len(result.quick_looks) :
         /\ result.quick_looks[k].error = None
         /\ result.quick_looks[k].score > DefaultScore

-----------------------------------------------------------------------------
(* Properties of ties in the growth pool *)

\* C28: among repositories of the growth pool with the same stars_today, one
\* that is a top pick stands before every one that is not; with the same
\* non-zero growth everywhere the top picks are the first top_pick_count
\* positions
C28_TiesByInputOrder ==
    (SummarizeAllReturned /\ DistinctNames /\ GrowthPool # {}) =>
        /\ \A t \in TopPickIds : \A u \in GrowthPool \ TopPickIds :
               repos[t].stars_today = repos[u].stars_today => t < u
        /\ (\A k \in 1..Len(repos) : repos[k].stars_today = repos[1].stars_today) =>
               TopPickIds = 1..Min(settings.top_pick_count, Len(repos))

\* stars_today = [10, 50, 10, 10] and top_pick_count = 2: of the three
\* repositories with 10 the first one is the second top pick
C28_Witness ==
    /\ SummarizeAllReturned
    /\ settings.top_pick_count = 2
    /\ [k \in 1..Len(repos) |-> repos[k].stars_today] = <<10, 50, 10, 10>>
    /\ TopPickIds = {1, 2}

-----------------------------------------------------------------------------
(* Properties of the number of top picks *)

\* C30: the returned outcome holds at most top_pick_count top picks, for
\* every repository list, one with a repeated name included
C30_AtMostTopPickCount ==
    SummarizeAllReturned => Len(result.top_picks) <= settings.top_pick_count

-----------------------------------------------------------------------------
(* Properties of the run as a whole *)

RunEnded == pc = "exited"

\* the requests of crawl and the provider calls of summarize_all over the
\* Len(repos) repositories it was given
RunBudget ==
    /\ net.trending_calls <= 3
    /\ net.search_calls <= 3
    /\ observed.primary <= 3 * Len(repos)
    /\ observed.fallback <= 3 * Len(repos)

\* C29: the run ends whatever the external services answer, and until then
\* crawl has made at most 3 trending fetches and at most 3 search calls and
\* summarize_all over n repositories at most 3n primary and 3n secondary
\* provider calls
C29_RunTerminatesWithinBudget == []RunBudget /\ <>RunEnded

\* a run that ended after 3 trending fetches and, for its 2 repositories, 6
\* primary and 6 secondary provider calls
C29_Witness ==
    /\ RunEnded
    /\ net.trending_calls = 3
    /\ Len(repos) = 2
    /\ observed.primary = 6
    /\ observed.fallback = 6

-----------------------------------------------------------------------------
(* Properties of the result of crawl *)

\* C31: a result that crawl returns holds at least one repository, whichever
\* path produced it
C31_ReturnedResultNonEmpty ==
    CrawlReturned => crawler_result.repos # <<>>

-----------------------------------------------------------------------------
(* Properties of the content of a degraded summary *)

\* C32: in a summary returned with error set, one_liner_cn is the
\* repository's description or a placeholder, core_features a placeholder
\* list, and use_case and score_reason the constructor's defaults: nothing of
\* a provider's payload
C32_DegradedSummaryHasNoProviderContent ==
    (SummarizeRepoReturned /\ summary.error # None) =>
        /\ summary.one_liner_cn \in
              {repos[i].description, ApiFailedHeadline, ParseFailedHeadline}
        /\ summary.core_features \in {ApiFailedFeatures, ParseFailedFeatures}
        /\ summary.use_case = ProjectSummary(repos[i]).use_case
        /\ summary.score_reason = ProjectSummary(repos[i]).score_reason

-----------------------------------------------------------------------------
(* Properties of notify *)

Notified == pc = "notified"
Configured == notification.notifiers
Posts == observed.requests
PostsTo(name) == {k \in 1..Len(Posts) : Posts[k].to = name}

\* the top picks when there are any, otherwise the first three quick looks
ExpectedSummaries ==
    IF result.top_picks # <<>> THEN result.top_picks
    ELSE SubSeq(result.quick_looks, 1, Min(3, Len(result.quick_looks)))

\* C33: when notify has returned, with notifiers configured and summaries to
\* send: the returned map has exactly one entry per configured platform;
\* every notifier was posted to, between 1 and 3 times, all posts of a
\* notifier before those of the notifiers behind it; a notifier's entry is
\* True exactly when one of its posts succeeded and False only after 3
\* failed posts; and every post carried the top picks when there are any,
\* otherwise the first three quick looks
C33_NotifyFanOut ==
    (Notified /\ Configured # <<>> /\ ExpectedSummaries # <<>>) =>
        /\ DOMAIN notification.results = {Configured[k] : k \in 1..Len(Configured)}
        /\ \A k \in 1..Len(Configured) :
             /\ PostsTo(Configured[k]) # {}
             /\ Cardinality(PostsTo(Configured[k])) <= 3
             /\ \A m \in 1..Len(Configured) :
                  k < m => \A a \in PostsTo(Configured[k]), b \in PostsTo(Configured[m]) : a < b
             /\ notification.results[Configured[k]] =
                   (\E a \in PostsTo(Configured[k]) : Posts[a].ok)
             /\ ~notification.results[Configured[k]] =>
                   Cardinality(PostsTo(Configured[k])) = 3
        /\ \A k \in 1..Len(Posts) : Posts[k].summaries = ExpectedSummaries

\* four platforms, no top pick and four quick looks: the first platform
\* failed three times and is recorded False, the last one was still posted
\* to and succeeded, and three summaries were sent
C33_Witness ==
    /\ Notified
    /\ Len(Configured) = 4
    /\ result.top_picks = <<>>
    /\ Len(result.quick_looks) = 4
    /\ Len(notification.summaries) = 3
    /\ Cardinality(PostsTo("Feishu")) = 3
    /\ DOMAIN notification.results = {"Feishu", "DingTalk", "Slack", "Telegram"}
    /\ ~notification.results["Feishu"]
    /\ notification.results["Telegram"]

====
